---- MODULE Spec2Model ----
(***************************************************************************)
(* A model of the moderation bot of src/moderation_bot.py: the violation   *)
(* ledger and 3-strike escalation (handle_violation), the trust scorer     *)
(* (calculate_trust_score), the text classifier of src/content_filter.py   *)
(* and the retention scheduler (message tracking, one-shot sweeps,         *)
(* recurring auto-deletion tasks).                                         *)
(*                                                                         *)
(* Python dictionaries are functions whose DOMAIN is the set of keys       *)
(* present.  Time is the integer `now`, in minutes.  Calls to the          *)
(* transport (delete, ban, send) are inputs of the handler that makes      *)
(* them: each call either succeeds or raises, and `actions` records the    *)
(* calls the last handler issued, in order.                                *)
(***************************************************************************)
EXTENDS Integers, Sequences, FiniteSets, TLC

(***************************************************************************)
(* Bounds of the model.                                                    *)
(***************************************************************************)
MaxMsgId == 4          \* message ids handed out by the transport: 1..MaxMsgId
MaxWarnings == 4       \* no further unsafe event is fed to a user whose count is here
MaxTicks == 2          \* how often the clock advances in one behaviour
MaxTasks == 2          \* asyncio tasks created by /auto in one behaviour
MaxTracked == 2        \* messages observed in one behaviour of the retention scheduler

(***************************************************************************)
(* Program constants.                                                      *)
(***************************************************************************)
WARNING_LIMIT == 3             \* "3 strikes and you're out"
BASE_SCORE == 50
MAX_TIME_BONUS == 20
VIOLATION_PENALTY == 15
WARNING_PENALTY == 10
TRUSTED_MIN == 80
GOOD_MIN == 60
MINUTES_PER_DAY == 1440
CADENCE == 10                  \* asyncio.sleep(600) of the auto-deletion task
CONFIRM_ABOVE == 180
MIN_TIMER == 5
MIN_AUTO == 10
MAX_WINDOW == 1440
RETENTION_CEILING == 2880      \* timedelta(hours=48)
CLEANUP_CADENCE == 60          \* asyncio.sleep(3600) of the periodic cleanup task

\* Scores are kept multiplied by SCORE_SCALE, so that the tenure bonus of
\* 2 points per day (1 point per 720 minutes) is exact on integer minutes.
SCORE_SCALE == MINUTES_PER_DAY \div 2

Users == {1}
ChannelAdmins == {8}           \* admins known only to the transport (get_chat_member)
ConfigAdmins == {9}            \* Config.ADMIN_IDS
AllUsers == Users \cup ChannelAdmins \cup ConfigAdmins
Chats == {100, 200}
MsgIds == 1..MaxMsgId

(***************************************************************************)
(* Dictionary helpers.                                                     *)
(***************************************************************************)
Put(f, k, v) == [x \in (DOMAIN f) \cup {k} |-> IF x = k THEN v ELSE f[x]]
Del(f, k) == [x \in (DOMAIN f) \ {k} |-> f[x]]
Get(f, k, d) == IF k \in DOMAIN f THEN f[k] ELSE d
EmptyDict == [x \in {} |-> 0]
Min(a, b) == IF a < b THEN a ELSE b
Max(a, b) == IF a > b THEN a ELSE b

VARIABLES
    user_warnings,        \* user id -> warning count
    user_violations,      \* user id -> sequence of violation_info
    user_trust_scores,    \* user id -> score (times SCORE_SCALE)
    user_join_dates,      \* user id -> time of first observation
    auto_deletion_tasks,  \* chat id -> (minutes -> task id)
    message_history,      \* message id -> date
    now,                  \* the clock, in minutes
    ticks,                \* how often the clock advanced
    next_msg_id,          \* the next message id the transport hands out
    msg_chat,             \* message id -> the chat it was observed in
    tasks,                \* task id -> state of the auto_delete_task coroutine
    oneshot,              \* state of the sweep run by the dispatcher (delete_messages_by_time)
    delete_requests,      \* <<chat, message>> pairs of the sweeps' delete_message calls
    confirmed,            \* <<chat, minutes>> pairs for which /confirm<minutes> was handled
    last_cmd,             \* the last event or directive handled
    actions,              \* transport calls issued by the last handler, in order
    last_preview          \* the last preview report shown in a chat

vars == <<user_warnings, user_violations, user_trust_scores, user_join_dates,
          auto_deletion_tasks, message_history, now, ticks, next_msg_id, msg_chat,
          tasks, oneshot, delete_requests, confirmed, last_cmd, actions, last_preview>>

ledgerVars == <<user_warnings, user_violations>>
trustVars == <<user_trust_scores, user_join_dates>>
retentionVars == <<auto_deletion_tasks, message_history, tasks, oneshot,
                   delete_requests, confirmed>>

(***************************************************************************)
(* Text classifier (src/content_filter.py).  A text is represented by the  *)
(* outcome of each pattern set on it; the sample texts below carry the     *)
(* outcomes the regular expressions and keyword lists give on them.        *)
(*   edu       : a keyword of analyze_message's educational list occurs    *)
(*   edu_basic : a keyword of check_screenshot_threat's shorter list       *)
(*   vulgar / competitor / threat : a compiled word pattern matches        *)
(*   spam / commercial : check_spam_patterns / check_commercial_spam       *)
(*   promo     : one of analyze_message_strict's substrings occurs         *)
(***************************************************************************)
Feat(e, eb, v, c, s, cm, p) ==
    [edu |-> e, edu_basic |-> eb, vulgar |-> v, competitor |-> c, threat |-> FALSE,
     spam |-> s, commercial |-> cm, promo |-> p]

Texts == {"", "hello", "fuck you", "physics doubt", "fuck this exam",
          "buy now", "join my channel", "dm for notes", "neet pdf call now",
          "allen rocks", "allen physics test", "coaching",
          "pw is best for neet", "join my neet group", "free pdf",
          "free course for jee", "visit www.spam.com",
          "see https://neetprep.com/q", "www.ads.com biology notes",
          "call 9876543210", "whatsapp 9876543210 for mock test",
          "discount code", "discount offer on study material",
          "limited time offer", "click here", "message me", "follow me",
          "subscribe to my page", "like and share this formula", "pagal",
          "useless channel", "sexy chemistry teacher", "buy course",
          "buy pdf of ncert", "FUCK", "Physics Wallah", "good morning",
          "mathematics", "spam test", "check my answer", "dm me"}

TextFeatures(t) ==
    CASE t = "hello"                              -> Feat(FALSE, FALSE, FALSE, FALSE, FALSE, FALSE, FALSE)
      [] t = "fuck you"                           -> Feat(FALSE, FALSE, TRUE , FALSE, FALSE, FALSE, FALSE)
      [] t = "physics doubt"                      -> Feat(TRUE , TRUE , FALSE, FALSE, FALSE, FALSE, FALSE)
      [] t = "fuck this exam"                     -> Feat(TRUE , FALSE, TRUE , FALSE, FALSE, FALSE, FALSE)
      [] t = "buy now"                            -> Feat(FALSE, FALSE, FALSE, FALSE, TRUE , TRUE , FALSE)
      [] t = "join my channel"                    -> Feat(FALSE, FALSE, FALSE, FALSE, TRUE , FALSE, TRUE )
      [] t = "dm for notes"                       -> Feat(FALSE, FALSE, FALSE, FALSE, FALSE, TRUE , FALSE)
      [] t = "neet pdf call now"                  -> Feat(TRUE , TRUE , FALSE, FALSE, FALSE, TRUE , FALSE)
      [] t = "allen rocks"                        -> Feat(FALSE, FALSE, FALSE, TRUE , FALSE, FALSE, FALSE)
      [] t = "allen physics test"                 -> Feat(TRUE , TRUE , FALSE, TRUE , FALSE, FALSE, FALSE)
      [] t = "coaching"                           -> Feat(FALSE, FALSE, FALSE, TRUE , FALSE, FALSE, FALSE)
      [] t = "pw is best for neet"                -> Feat(TRUE , TRUE , FALSE, TRUE , FALSE, FALSE, FALSE)
      [] t = "join my neet group"                 -> Feat(TRUE , TRUE , FALSE, FALSE, FALSE, FALSE, TRUE )
      [] t = "free pdf"                           -> Feat(FALSE, FALSE, FALSE, FALSE, TRUE , FALSE, FALSE)
      [] t = "free course for jee"                -> Feat(TRUE , FALSE, FALSE, FALSE, TRUE , FALSE, FALSE)
      [] t = "visit www.spam.com"                 -> Feat(FALSE, FALSE, FALSE, FALSE, TRUE , FALSE, FALSE)
      [] t = "see https://neetprep.com/q"         -> Feat(TRUE , TRUE , FALSE, FALSE, FALSE, FALSE, FALSE)
      [] t = "www.ads.com biology notes"          -> Feat(TRUE , TRUE , FALSE, FALSE, TRUE , FALSE, FALSE)
      [] t = "call 9876543210"                    -> Feat(FALSE, FALSE, FALSE, FALSE, TRUE , FALSE, FALSE)
      [] t = "whatsapp 9876543210 for mock test"  -> Feat(TRUE , FALSE, FALSE, FALSE, TRUE , TRUE , FALSE)
      [] t = "discount code"                      -> Feat(FALSE, FALSE, FALSE, FALSE, TRUE , TRUE , FALSE)
      [] t = "discount offer on study material"   -> Feat(TRUE , FALSE, FALSE, FALSE, FALSE, TRUE , FALSE)
      [] t = "limited time offer"                 -> Feat(FALSE, FALSE, FALSE, FALSE, TRUE , TRUE , FALSE)
      [] t = "click here"                         -> Feat(FALSE, FALSE, FALSE, FALSE, TRUE , FALSE, FALSE)
      [] t = "message me"                         -> Feat(FALSE, FALSE, FALSE, FALSE, TRUE , FALSE, FALSE)
      [] t = "follow me"                          -> Feat(FALSE, FALSE, FALSE, FALSE, FALSE, FALSE, TRUE )
      [] t = "subscribe to my page"               -> Feat(FALSE, FALSE, FALSE, FALSE, FALSE, FALSE, TRUE )
      [] t = "like and share this formula"        -> Feat(TRUE , TRUE , FALSE, FALSE, FALSE, FALSE, TRUE )
      [] t = "pagal"                              -> Feat(FALSE, FALSE, TRUE , FALSE, FALSE, FALSE, FALSE)
      [] t = "useless channel"                    -> Feat(FALSE, FALSE, TRUE , FALSE, FALSE, FALSE, FALSE)
      [] t = "sexy chemistry teacher"             -> Feat(TRUE , TRUE , TRUE , FALSE, FALSE, FALSE, FALSE)
      [] t = "buy course"                         -> Feat(FALSE, FALSE, FALSE, FALSE, FALSE, TRUE , FALSE)
      [] t = "buy pdf of ncert"                   -> Feat(TRUE , FALSE, FALSE, FALSE, FALSE, TRUE , FALSE)
      [] t = "FUCK"                               -> Feat(FALSE, FALSE, TRUE , FALSE, FALSE, FALSE, FALSE)
      [] t = "Physics Wallah"                     -> Feat(TRUE , TRUE , FALSE, TRUE , FALSE, FALSE, FALSE)
      [] t = "good morning"                       -> Feat(FALSE, FALSE, FALSE, FALSE, FALSE, FALSE, FALSE)
      [] t = "mathematics"                        -> Feat(TRUE , TRUE , FALSE, FALSE, FALSE, FALSE, FALSE)
      [] t = "spam test"                          -> Feat(TRUE , FALSE, FALSE, FALSE, FALSE, FALSE, FALSE)
      [] t = "check my answer"                    -> Feat(TRUE , TRUE , FALSE, FALSE, FALSE, FALSE, TRUE )
      [] t = "dm me"                              -> Feat(FALSE, FALSE, FALSE, FALSE, TRUE , FALSE, FALSE)
      [] OTHER                                   -> Feat(FALSE, FALSE, FALSE, FALSE, FALSE, FALSE, FALSE)

Hit(type, severity) == [type |-> type, severity |-> severity]
Verdict(violations) == [is_safe |-> Len(violations) = 0, violations |-> violations]
When(cond, hit) == IF cond THEN <<hit>> ELSE <<>>

check_vulgar_content(t) == TextFeatures(t).vulgar
check_competitor_content(t) == TextFeatures(t).competitor
check_screenshot_threat(t) ==
    IF t = "" THEN FALSE
    ELSE IF TextFeatures(t).edu_basic THEN FALSE
    ELSE TextFeatures(t).threat
check_spam_patterns(t) == IF t = "" THEN FALSE ELSE TextFeatures(t).spam
check_commercial_spam(t) == TextFeatures(t).commercial

analyze_message(t) ==
    IF t = "" THEN Verdict(<<>>)
    ELSE IF TextFeatures(t).edu
    THEN (IF check_commercial_spam(t)
          THEN Verdict(<<Hit("commercial_spam", "high")>>)
          ELSE Verdict(<<>>))
    ELSE Verdict(When(check_vulgar_content(t), Hit("vulgar_content", "high"))
                 \o When(check_competitor_content(t), Hit("competitor_content", "medium"))
                 \o When(check_screenshot_threat(t), Hit("screenshot_threat", "high"))
                 \o When(check_spam_patterns(t), Hit("spam_pattern", "medium")))

analyze_message_trusted_as_normal(t) ==
    IF t = "" THEN Verdict(<<>>)
    ELSE Verdict(When(check_vulgar_content(t), Hit("vulgar_content", "high"))
                 \o When(check_commercial_spam(t), Hit("commercial_spam", "high")))

analyze_message_trusted(t) ==
    IF t = "" THEN Verdict(<<>>)
    ELSE IF check_commercial_spam(t)
    THEN Verdict(<<Hit("commercial_spam", "high")>>)
    ELSE Verdict(<<>>)

analyze_message_strict_spam_only(t) ==
    IF t = "" THEN Verdict(<<>>)
    ELSE Verdict(When(check_vulgar_content(t), Hit("vulgar_content", "high"))
                 \o When(check_competitor_content(t), Hit("competitor_content", "medium"))
                 \o When(check_screenshot_threat(t), Hit("screenshot_threat", "high"))
                 \o When(check_spam_patterns(t), Hit("spam_pattern", "medium"))
                 \o When(TextFeatures(t).promo, Hit("promotional_pattern", "medium")))

analyze_message_strict(t) ==
    IF t = "" THEN Verdict(<<>>)
    ELSE Verdict(When(check_vulgar_content(t), Hit("vulgar_content", "high"))
                 \o When(check_competitor_content(t), Hit("competitor_content", "medium"))
                 \o When(check_screenshot_threat(t), Hit("screenshot_threat", "high"))
                 \o When(check_spam_patterns(t) \/ check_commercial_spam(t),
                         Hit("spam_pattern", "medium"))
                 \o When(TextFeatures(t).promo, Hit("promotional_pattern", "medium")))

(***************************************************************************)
(* Image classifier: the results analyze_image can return                  *)
(* (src/image_analyzer.py).  Neither carries a "violations" key, so        *)
(* handle_violation reads an empty list from both.                         *)
(***************************************************************************)
ImageAnalyses ==
    {[is_safe |-> TRUE, violations |-> <<>>, reason |-> "safe"],
     [is_safe |-> FALSE, violations |-> <<>>, reason |-> "competitor_logo"],
     [is_safe |-> FALSE, violations |-> <<>>, reason |-> "error"]}

\* An image is represented by what the decoder and the two template matchers
\* give on it.  Both matchers correlate the same grayscale pixels with the
\* same templates; _match_template_strict tries a subset of the scales of
\* _match_template at a higher threshold, so a strict match is a lenient
\* match too.
\*   decodes  : Image.open succeeds (it reads the header only)
\*   converts : image.convert('RGB') and the cv2 conversions of the detectors
\*              succeed (the pixel data is read there)
\*   wide     : some template reaches 0.8 at a scale of 0.3 .. 1.2
\*   narrow   : some template reaches 0.9 at a scale of 0.8 .. 1.2
Images == {"corrupt", "truncated", "plain", "small_logo", "faint_logo", "logo"}

ImgFeat(d, c, w, n) == [decodes |-> d, converts |-> c, wide |-> w, narrow |-> n]

ImageFeatures(img) ==
    CASE img = "corrupt"    -> ImgFeat(FALSE, FALSE, FALSE, FALSE)
      [] img = "truncated"  -> ImgFeat(TRUE , FALSE, FALSE, FALSE)
      [] img = "small_logo" -> ImgFeat(TRUE , TRUE , TRUE , FALSE)
      [] img = "faint_logo" -> ImgFeat(TRUE , TRUE , TRUE , FALSE)
      [] img = "logo"       -> ImgFeat(TRUE , TRUE , TRUE , TRUE )
      [] OTHER              -> ImgFeat(TRUE , TRUE , FALSE, FALSE)

\* A caption is represented by whether it is blank after strip() and whether
\* a keyword of ImageAnalyzer.educational_keywords occurs in it.
NoCaption == "<no caption>"
Captions == {NoCaption, "", "   ", "neet question", "hello", "allen test series",
             "good morning", "Physics", "join my channel"}

CaptionFeatures(caption) ==
    CASE caption = ""                  -> [blank |-> TRUE , edu |-> FALSE]
      [] caption = "   "               -> [blank |-> TRUE , edu |-> FALSE]
      [] caption = "neet question"     -> [blank |-> FALSE, edu |-> TRUE ]
      [] caption = "allen test series" -> [blank |-> FALSE, edu |-> TRUE ]
      [] caption = "Physics"           -> [blank |-> FALSE, edu |-> TRUE ]
      [] OTHER                         -> [blank |-> FALSE, edu |-> FALSE]

\* caption = message.caption if message.caption else ""
CaptionOf(caption) == IF caption = NoCaption THEN "" ELSE caption

_is_educational_content(caption) ==
    IF caption = "" THEN FALSE ELSE CaptionFeatures(caption).edu

\* Both detectors convert the image inside their own try block and answer
\* False when the conversion raises (lines 149-151, 219-221).
_detect_competitor_logos(img) ==
    IF ~ImageFeatures(img).converts THEN FALSE ELSE ImageFeatures(img).wide
_detect_competitor_logos_strict(img) ==
    IF ~ImageFeatures(img).converts THEN FALSE ELSE ImageFeatures(img).narrow

ImageVerdict(has_competitor_logo) ==
    [is_safe |-> ~has_competitor_logo, violations |-> <<>>,
     reason |-> IF has_competitor_logo THEN "competitor_logo" ELSE "safe"]

analyze_image_wide_only(img, caption) ==
    IF ~ImageFeatures(img).decodes
    THEN [is_safe |-> FALSE, violations |-> <<>>, reason |-> "error"]
    ELSE ImageVerdict(_detect_competitor_logos(img))

\* analyze_image(image_data, caption): an image that does not decode leaves
\* through the except branch with is_safe False.
analyze_image(img, caption) ==
    IF ~ImageFeatures(img).decodes
    THEN [is_safe |-> FALSE, violations |-> <<>>, reason |-> "error"]
    ELSE LET is_educational ==
                 _is_educational_content(caption) \/ CaptionFeatures(caption).blank
         IN  IF is_educational
             THEN ImageVerdict(_detect_competitor_logos_strict(img))
             ELSE ImageVerdict(_detect_competitor_logos(img))

(***************************************************************************)
(* Trust scorer.                                                           *)
(***************************************************************************)
TrustFormulaWarningsIgnored(warnings, violations, joined, t) ==
    LET time_bonus == Min(MAX_TIME_BONUS * SCORE_SCALE, t - joined)
        raw == BASE_SCORE * SCORE_SCALE + time_bonus
               - violations * VIOLATION_PENALTY * SCORE_SCALE
    IN  Max(0, Min(100 * SCORE_SCALE, raw))

TrustFormulaFolded(warnings, violations, joined, t) ==
    LET time_bonus == Min(MAX_TIME_BONUS * SCORE_SCALE, t - joined)
        raw == BASE_SCORE * SCORE_SCALE + time_bonus
               - violations * VIOLATION_PENALTY * SCORE_SCALE
               - warnings * WARNING_PENALTY * SCORE_SCALE
    IN  Min(100 * SCORE_SCALE, IF raw < 0 THEN 0 - raw ELSE raw)

TrustFormulaBonusUncapped(warnings, violations, joined, t) ==
    LET time_bonus == t - joined
        raw == BASE_SCORE * SCORE_SCALE + time_bonus
               - violations * VIOLATION_PENALTY * SCORE_SCALE
               - warnings * WARNING_PENALTY * SCORE_SCALE
    IN  Max(0, Min(100 * SCORE_SCALE, raw))

\* The value calculate_trust_score computes from the ledger and the clock.
TrustFormula(warnings, violations, joined, t) ==
    LET time_bonus == Min(MAX_TIME_BONUS * SCORE_SCALE, t - joined)
        raw == BASE_SCORE * SCORE_SCALE + time_bonus
               - violations * VIOLATION_PENALTY * SCORE_SCALE
               - warnings * WARNING_PENALTY * SCORE_SCALE
    IN  Max(0, Min(100 * SCORE_SCALE, raw))

\* calculate_trust_score(user_id): the dictionaries after the call and the result.
JoinDatesAfterScore(u) ==
    IF u \in DOMAIN user_trust_scores THEN user_join_dates
    ELSE Put(user_join_dates, u, now)

calculate_trust_score(u) ==
    TrustFormula(Get(user_warnings, u, 0),
                 Len(Get(user_violations, u, <<>>)),
                 Get(JoinDatesAfterScore(u), u, now),
                 now)

ScoresAfterScore(u) == Put(user_trust_scores, u, calculate_trust_score(u))

get_trust_level(score) ==
    IF score >= TRUSTED_MIN * SCORE_SCALE THEN "TRUSTED"
    ELSE IF score >= GOOD_MIN * SCORE_SCALE THEN "GOOD"
    ELSE IF score >= 40 * SCORE_SCALE THEN "NEUTRAL"
    ELSE IF score >= 20 * SCORE_SCALE THEN "MONITORED"
    ELSE "RESTRICTED"

\* The classifier handle_text_message applies at a score.
TierOf(score) ==
    IF score >= TRUSTED_MIN * SCORE_SCALE THEN "trusted"
    ELSE IF score >= GOOD_MIN * SCORE_SCALE THEN "normal"
    ELSE "strict"

Classify(t, tier) ==
    IF tier = "trusted" THEN analyze_message_trusted(t)
    ELSE IF tier = "normal" THEN analyze_message(t)
    ELSE analyze_message_strict(t)

\* is_admin(user_id, context): the static list, else the transport's answer; a
\* failed get_chat_member lookup is answered False.
IsAdminOutcomes(u) ==
    IF u \in ConfigAdmins THEN {TRUE}
    ELSE IF u \in ChannelAdmins THEN {TRUE, FALSE}
    ELSE {FALSE}

(***************************************************************************)
(* Escalation controller: handle_violation.                                *)
(***************************************************************************)
\* One transport call of a handler, as recorded in `actions`.
Call(op, ok, target, n, left, detail) ==
    [op |-> op, ok |-> ok, target |-> target, n |-> n, left |-> left, detail |-> detail]

\* The outcomes of the transport calls of one event: all succeed, or one kind fails.
AllOk == [del |-> TRUE, report |-> TRUE, ban |-> TRUE, notice |-> TRUE]
Outcomes == {AllOk, [AllOk EXCEPT !.del = FALSE], [AllOk EXCEPT !.report = FALSE],
             [AllOk EXCEPT !.ban = FALSE], [AllOk EXCEPT !.notice = FALSE]}

TypesOf(hits) == [i \in 1..Len(hits) |-> hits[i].type]

\* The wording of a rule hit in the group warning (lines 381-401).
ReasonLabel(v_type) ==
    CASE v_type = "vulgar_content" -> "inappropriate content"
      [] v_type = "competitor_content" -> "competitor name"
      [] v_type = "screenshot_threat" -> "threatening content"
      [] v_type = "spam_pattern" -> "spam/promotional pattern"
      [] v_type = "commercial_spam" -> "commercial promotion"
      [] v_type = "promotional_pattern" -> "promotional content"
      [] OTHER -> v_type

reason_text(analysis) ==
    IF Len(analysis.violations) = 0 THEN <<"rule violation">>
    ELSE [i \in 1..Len(analysis.violations) |-> ReasonLabel(analysis.violations[i].type)]

\* get_user_violation_history: one line per recorded violation, in order.
get_user_violation_history(uv, u) ==
    IF u \notin DOMAIN uv THEN <<"No detailed history available">>
    ELSE [i \in 1..Len(uv[u]) |-> [type |-> uv[u][i].type, types |-> TypesOf(uv[u][i].violations)]]

violation_info(content_type, analysis, warning_count) ==
    [type |-> content_type, violations |-> analysis.violations,
     warning_number |-> warning_count]

\* Admin reports of lines 319-327: one send per configured admin, each failure caught.
AdminReports(warning_count, ok) ==
    LET RECURSIVE Rep(_)
        Rep(S) == IF S = {} THEN <<>>
                  ELSE LET a == CHOOSE x \in S : \A y \in S : x <= y
                       IN  <<Call("report", ok, a, warning_count, 0, <<>>)>> \o Rep(S \ {a})
    IN  Rep(ConfigAdmins)

\* The ban branch (lines 330-374): ban, final notice, then the reset; a failed ban
\* or a failed notice raises past the reset.
BanBranch(uw, uv, u, chat, out) ==
    IF ~out.ban
    THEN [uw |-> uw, uv |-> uv, acts |-> <<Call("ban", FALSE, u, 0, 0, <<>>)>>]
    ELSE IF ~out.notice
    THEN [uw |-> uw, uv |-> uv,
          acts |-> <<Call("ban", TRUE, u, 0, 0, <<>>),
                     Call("notice_banned", FALSE, chat, 3, 0,
                          get_user_violation_history(uv, u))>>]
    ELSE [uw |-> Del(uw, u), uv |-> Del(uv, u),
          acts |-> <<Call("ban", TRUE, u, 0, 0, <<>>),
                     Call("notice_banned", TRUE, chat, 3, 0,
                          get_user_violation_history(uv, u))>>]

WarnBranchUndoOnFailure(uw, uv, u, chat, analysis, warning_count, out) ==
    [uw |-> IF out.notice THEN uw ELSE Put(uw, u, warning_count - 1),
     uv |-> IF out.notice THEN uv ELSE Put(uv, u, SubSeq(uv[u], 1, Len(uv[u]) - 1)),
     acts |-> <<Call("notice_warn", out.notice, chat, warning_count,
                     WARNING_LIMIT - warning_count, reason_text(analysis))>>]

\* The warn branch (lines 376-414).
WarnBranch(uw, uv, u, chat, analysis, warning_count, out) ==
    [uw |-> uw, uv |-> uv,
     acts |-> <<Call("notice_warn", out.notice, chat, warning_count,
                     WARNING_LIMIT - warning_count, reason_text(analysis))>>]

\* What the escalation step does once the count stands at warning_count.
Escalate(uw, uv, u, chat, analysis, warning_count, out) ==
    IF warning_count >= WARNING_LIMIT
    THEN BanBranch(uw, uv, u, chat, out)
    ELSE WarnBranch(uw, uv, u, chat, analysis, warning_count, out)

\* The ledger update of lines 301-314.
RecordViolation(u, analysis, content_type) ==
    LET fresh == u \notin DOMAIN user_warnings
        uw0 == IF fresh THEN Put(user_warnings, u, 0) ELSE user_warnings
        uv0 == IF fresh THEN Put(user_violations, u, <<>>) ELSE user_violations
        wc == uw0[u] + 1
    IN  [uw |-> Put(uw0, u, wc),
         uv |-> Put(uv0, u, Append(uv0[u], violation_info(content_type, analysis, wc))),
         wc |-> wc]

handle_violation_delete_last(u, chat, msg, analysis, content_type, out) ==
    LET rec == RecordViolation(u, analysis, content_type)
        esc == Escalate(rec.uw, rec.uv, u, chat, analysis, rec.wc, out)
    IN  [uw |-> esc.uw, uv |-> esc.uv, wc |-> rec.wc,
         acts |-> AdminReports(rec.wc, out.report) \o esc.acts
                  \o <<Call("delete", out.del, msg, 0, 0, <<>>)>>]

\* handle_violation(message, analysis, content_type, context): the ledger after
\* the call, the transport calls it made and the count it reached (0: none).
\* message.delete() is the first statement of the try block, so a failed delete
\* leaves through the outer except before the ledger is touched.
handle_violation(u, chat, msg, analysis, content_type, out) ==
    IF ~out.del
    THEN [uw |-> user_warnings, uv |-> user_violations, wc |-> 0,
          acts |-> <<Call("delete", FALSE, msg, 0, 0, <<>>)>>]
    ELSE LET rec == RecordViolation(u, analysis, content_type)
             esc == Escalate(rec.uw, rec.uv, u, chat, analysis, rec.wc, out)
         IN  [uw |-> esc.uw, uv |-> esc.uv, wc |-> rec.wc,
              acts |-> <<Call("delete", TRUE, msg, 0, 0, <<>>)>>
                       \o AdminReports(rec.wc, out.report) \o esc.acts]

(***************************************************************************)
(* State of the coroutines.                                                *)
(***************************************************************************)
IdleSweep == [pc |-> "idle", chat |-> 0, minutes |-> 0, targets |-> <<>>, idx |-> 0,
              deleted |-> 0, errors |-> 0, outcome |-> "none"]

Cmd(kind, user, chat, msg, minutes, wc, reply) ==
    [kind |-> kind, user |-> user, chat |-> chat, msg |-> msg, minutes |-> minutes,
     wc |-> wc, reply |-> reply]

\* No preview has been reported yet.
NoPreview ==
    [chat |-> 0, minutes |-> 0, cutoff |-> 0, will_delete |-> 0, newer |-> 0,
     total |-> 0, snapshot |-> {}]

Init ==
    /\ user_warnings = EmptyDict
    /\ user_violations = EmptyDict
    /\ user_trust_scores = EmptyDict
    /\ user_join_dates = EmptyDict
    /\ auto_deletion_tasks = EmptyDict
    /\ message_history = EmptyDict
    /\ now = 0
    /\ ticks = 0
    /\ next_msg_id = 1
    /\ msg_chat = EmptyDict
    /\ tasks = EmptyDict
    /\ oneshot = IdleSweep
    /\ delete_requests = {}
    /\ confirmed = {}
    /\ last_cmd = Cmd("none", 0, 0, 0, 0, 0, "")
    /\ actions = <<>>
    /\ last_preview = NoPreview

\* The dispatcher handles one update at a time: no handler starts while the
\* one-shot sweep of an earlier directive is still running.
DispatcherFree == oneshot.pc = "idle"

(***************************************************************************)
(* Content events.                                                         *)
(***************************************************************************)
\* track_message(message)
TrackMessage(m, chat) ==
    /\ message_history' = Put(message_history, m, now)
    /\ msg_chat' = Put(msg_chat, m, chat)

\* The part of a content handler after the admin check, for an analysis
\* already made: handle_violation when the verdict is unsafe.
ApplyVerdict(kind, u, chat, m, analysis, out) ==
    IF analysis.is_safe
    THEN /\ UNCHANGED ledgerVars
         /\ actions' = <<>>
         /\ last_cmd' = Cmd(kind, u, chat, m, 0, 0, "safe")
    ELSE LET r == handle_violation(u, chat, m, analysis, kind, out)
         IN  /\ user_warnings' = r.uw
             /\ user_violations' = r.uv
             /\ actions' = r.acts
             /\ last_cmd' = Cmd(kind, u, chat, m, 0, r.wc, "unsafe")

NoEffect(kind, u, chat, m, reply) ==
    /\ UNCHANGED ledgerVars
    /\ actions' = <<>>
    /\ last_cmd' = Cmd(kind, u, chat, m, 0, 0, reply)

EventTexts == {"hello", "fuck you", "fuck this exam"}
LedgerChats == {100}
FeedOk(u) == Get(user_warnings, u, 0) < MaxWarnings

handle_text_message(u, chat, t, isadm, out) ==
    /\ DispatcherFree
    /\ next_msg_id <= MaxMsgId
    /\ FeedOk(u)
    /\ next_msg_id' = next_msg_id + 1
    /\ TrackMessage(next_msg_id, chat)
    /\ IF isadm
       THEN /\ NoEffect("text", u, chat, next_msg_id, "admin")
            /\ UNCHANGED trustVars
       ELSE /\ user_trust_scores' = ScoresAfterScore(u)
            /\ user_join_dates' = JoinDatesAfterScore(u)
            /\ ApplyVerdict("text", u, chat, next_msg_id,
                            Classify(t, TierOf(calculate_trust_score(u))), out)
    /\ UNCHANGED <<auto_deletion_tasks, now, ticks, tasks, oneshot, delete_requests, confirmed>>
    /\ UNCHANGED last_preview

\* handle_photo_message: a failed get_file or download is caught and logged.
handle_photo_message(u, chat, analysis, isadm, fetched, out) ==
    /\ DispatcherFree
    /\ next_msg_id <= MaxMsgId
    /\ FeedOk(u)
    /\ next_msg_id' = next_msg_id + 1
    /\ TrackMessage(next_msg_id, chat)
    /\ IF isadm THEN NoEffect("image", u, chat, next_msg_id, "admin")
       ELSE IF ~fetched THEN NoEffect("image", u, chat, next_msg_id, "fetch_failed")
       ELSE ApplyVerdict("image", u, chat, next_msg_id, analysis, out)
    /\ UNCHANGED trustVars
    /\ UNCHANGED <<auto_deletion_tasks, now, ticks, tasks, oneshot, delete_requests, confirmed>>
    /\ UNCHANGED last_preview

\* handle_document_message: only documents with an image/ mime type are analysed.
handle_document_message(u, chat, is_image, analysis, isadm, fetched, out) ==
    /\ DispatcherFree
    /\ next_msg_id <= MaxMsgId
    /\ FeedOk(u)
    /\ next_msg_id' = next_msg_id + 1
    /\ TrackMessage(next_msg_id, chat)
    /\ IF isadm THEN NoEffect("document", u, chat, next_msg_id, "admin")
       ELSE IF ~is_image THEN NoEffect("document", u, chat, next_msg_id, "not_image")
       ELSE IF ~fetched THEN NoEffect("document", u, chat, next_msg_id, "fetch_failed")
       ELSE ApplyVerdict("document", u, chat, next_msg_id, analysis, out)
    /\ UNCHANGED trustVars
    /\ UNCHANGED <<auto_deletion_tasks, now, ticks, tasks, oneshot, delete_requests, confirmed>>
    /\ UNCHANGED last_preview

reset_warnings_command_unchecked(admin, isadm, u) ==
    /\ DispatcherFree
    /\ IF u \in DOMAIN user_warnings
       THEN /\ user_warnings' = Del(user_warnings, u)
            /\ last_cmd' = Cmd("reset_warnings", u, 0, 0, 0, 0, "reset")
       ELSE /\ UNCHANGED user_warnings
            /\ last_cmd' = Cmd("reset_warnings", u, 0, 0, 0, 0, "no_warnings")
    /\ actions' = <<>>
    /\ UNCHANGED <<user_violations, trustVars, retentionVars, now, ticks, next_msg_id, msg_chat>>
    /\ UNCHANGED last_preview

\* reset_warnings_command: only user_warnings loses the user's entry.
reset_warnings_command(admin, isadm, u) ==
    /\ DispatcherFree
    /\ IF isadm /\ u \in DOMAIN user_warnings
       THEN /\ user_warnings' = Del(user_warnings, u)
            /\ last_cmd' = Cmd("reset_warnings", u, 0, 0, 0, 0, "reset")
       ELSE /\ UNCHANGED user_warnings
            /\ last_cmd' = Cmd("reset_warnings", u, 0, 0, 0, 0,
                               IF isadm THEN "no_warnings" ELSE "ignored")
    /\ actions' = <<>>
    /\ UNCHANGED <<user_violations, trustVars, retentionVars, now, ticks, next_msg_id, msg_chat>>
    /\ UNCHANGED last_preview

EditedCallsNoticeOnly(chat, m, del_ok, notice_ok) ==
    <<Call("notice_edited", notice_ok, chat, 0, 0, <<>>)>>

\* The transport calls of handle_any_edited_message for a non-admin (lines
\* 502-518): delete_message, then the notice; a failed delete is caught at
\* line 523 and the notice is not sent.
EditedCalls(chat, m, del_ok, notice_ok) ==
    IF del_ok
    THEN <<Call("delete", TRUE, m, 0, 0, <<>>),
           Call("notice_edited", notice_ok, chat, 0, 0, <<>>)>>
    ELSE <<Call("delete", FALSE, m, 0, 0, <<>>)>>

\* handle_any_edited_message (group -1) for the edit of message m.  The
\* handlers of group 0 find update.message empty for an edit: the text handler
\* returns at line 210, track_message at line 721, and the photo and document
\* handlers end in an AttributeError before any analysis.
handle_any_edited_message(u, chat, m, isadm, del_ok, notice_ok) ==
    /\ DispatcherFree
    /\ IF isadm
       THEN /\ actions' = <<>>
            /\ last_cmd' = Cmd("edited", u, chat, m, 0, 0, "admin")
       ELSE /\ actions' = EditedCalls(chat, m, del_ok, notice_ok)
            /\ last_cmd' = Cmd("edited", u, chat, m, 0, 0,
                               IF del_ok THEN "deleted" ELSE "failed")
    /\ UNCHANGED <<ledgerVars, trustVars, retentionVars, now, ticks, next_msg_id,
                   msg_chat, last_preview>>

EditedEvent ==
    \E u \in AllUsers, m \in DOMAIN msg_chat, del_ok \in BOOLEAN, notice_ok \in BOOLEAN :
        \E isadm \in IsAdminOutcomes(u) :
            handle_any_edited_message(u, msg_chat[m], m, isadm, del_ok, notice_ok)

TextEvent ==
    \E u \in Users \cup ChannelAdmins, chat \in LedgerChats, t \in EventTexts, out \in Outcomes :
        \E isadm \in IsAdminOutcomes(u) : handle_text_message(u, chat, t, isadm, out)

PhotoEvent ==
    \E u \in Users, chat \in LedgerChats, a \in ImageAnalyses, fetched \in BOOLEAN, out \in Outcomes :
        \E isadm \in IsAdminOutcomes(u) : handle_photo_message(u, chat, a, isadm, fetched, out)

DocumentEvent ==
    \E u \in Users, chat \in LedgerChats, a \in ImageAnalyses, is_image \in BOOLEAN,
       fetched \in BOOLEAN, out \in Outcomes :
        \E isadm \in IsAdminOutcomes(u) :
            handle_document_message(u, chat, is_image, a, isadm, fetched, out)

ResetWarnings ==
    \E admin \in AllUsers, u \in Users :
        \E isadm \in IsAdminOutcomes(admin) : reset_warnings_command(admin, isadm, u)

(***************************************************************************)
(* Spec: the escalation ledger under content events and /reset_warnings.   *)
(* All events of a behaviour fall at one clock value, so every user stays  *)
(* at the strict tier; the retention scheduler is the subject of           *)
(* SpecRetention.                                                          *)
(***************************************************************************)
Next == TextEvent \/ PhotoEvent \/ DocumentEvent \/ ResetWarnings

Spec == Init /\ [][Next]_vars

(***************************************************************************)
(* The /trust directive.                                                   *)
(***************************************************************************)
ScoreInRangeAlways(new_score) == TRUE

\* "if not 0 <= new_score <= 100" (line 641)
ScoreInRange(new_score) == 0 <= new_score /\ new_score <= 100

\* trust_command: mode is the shape of context.args, "usage" for none, "view"
\* for <user_id>, "set" for <user_id> <new_score>.  A non-admin gets no answer.
\* The score reported or set is the n of the reply recorded in `actions`.
trust_command(isadm, mode, u, new_score) ==
    /\ DispatcherFree
    /\ IF ~isadm
       THEN /\ last_cmd' = Cmd("trust", 0, 0, 0, 0, 0, "ignored")
            /\ actions' = <<>>
            /\ UNCHANGED trustVars
       ELSE IF mode = "usage"
       THEN /\ last_cmd' = Cmd("trust", 0, 0, 0, 0, 0, "usage")
            /\ actions' = <<>>
            /\ UNCHANGED trustVars
       ELSE IF mode = "view"
       THEN /\ user_trust_scores' = ScoresAfterScore(u)
            /\ user_join_dates' = JoinDatesAfterScore(u)
            /\ actions' = <<Call("reply_trust", TRUE, u, calculate_trust_score(u), 0, <<>>)>>
            /\ last_cmd' = Cmd("trust", u, 0, 0, 0, 0, "report")
       ELSE IF ~ScoreInRange(new_score)
       THEN /\ last_cmd' = Cmd("trust", u, 0, 0, 0, 0, "out_of_range")
            /\ actions' = <<>>
            /\ UNCHANGED trustVars
       ELSE /\ user_trust_scores' = Put(user_trust_scores, u, new_score * SCORE_SCALE)
            /\ UNCHANGED user_join_dates
            /\ actions' = <<Call("reply_trust_set", TRUE, u, new_score * SCORE_SCALE, 0, <<>>)>>
            /\ last_cmd' = Cmd("trust", u, 0, 0, 0, 0, "set")
    /\ UNCHANGED <<ledgerVars, retentionVars, now, ticks, next_msg_id, msg_chat>>
    /\ UNCHANGED last_preview

(***************************************************************************)
(* SpecClassify: the classifier alone.  A text of Texts is classified at a *)
(* tier, as lines 225-233 of handle_text_message do at the tier of the     *)
(* author's score; the text, the tier and the verdict are kept in          *)
(* last_cmd.                                                               *)
(***************************************************************************)
Tiers == {"trusted", "normal", "strict"}

Classified(t, tier, analysis) ==
    [kind |-> "classify", user |-> 0, chat |-> 0, msg |-> 0, minutes |-> 0, wc |-> 0,
     reply |-> IF analysis.is_safe THEN "safe" ELSE "unsafe",
     text |-> t, tier |-> tier, violations |-> analysis.violations]

ClassifyText ==
    \E t \in Texts, tier \in Tiers :
        /\ last_cmd' = Classified(t, tier, Classify(t, tier))
        /\ actions' = <<>>
        /\ UNCHANGED <<ledgerVars, trustVars, retentionVars, now, ticks, next_msg_id, msg_chat,
                       last_preview>>

\* An image with a caption is analysed as lines 254-256 of
\* handle_photo_message (276-278 of handle_document_message) do; the caption
\* handed over, the image and the result are kept in last_cmd.
ClassifiedImage(img, caption, analysis) ==
    [kind |-> "classify_image", user |-> 0, chat |-> 0, msg |-> 0, minutes |-> 0, wc |-> 0,
     reply |-> IF analysis.is_safe THEN "safe" ELSE "unsafe",
     text |-> caption, tier |-> "image", violations |-> analysis.violations,
     image |-> img, reason |-> analysis.reason]

ClassifyImage ==
    \E img \in Images, caption \in Captions :
        /\ last_cmd' = ClassifiedImage(img, CaptionOf(caption),
                                       analyze_image(img, CaptionOf(caption)))
        /\ actions' = <<>>
        /\ UNCHANGED <<ledgerVars, trustVars, retentionVars, now, ticks, next_msg_id, msg_chat,
                       last_preview>>

NextClassify == ClassifyText \/ ClassifyImage

SpecClassify == Init /\ [][NextClassify]_vars

(***************************************************************************)
(* Retention scheduler: tracked messages and sweeps.                       *)
(***************************************************************************)
RECURSIVE SortedSeq(_)
SortedSeq(S) ==
    IF S = {} THEN <<>>
    ELSE LET m == CHOOSE x \in S : \A y \in S : x <= y
         IN  <<m>> \o SortedSeq(S \ {m})

cleanup_keeps_all(mh, t) == mh

\* cleanup_old_message_history at time t: entries older than 48 hours go.
cleanup_old_message_history(mh, t) ==
    [m \in {x \in DOMAIN mh : ~(mh[x] < t - RETENTION_CEILING)} |-> mh[m]]

get_messages_older_than(mh, cutoff_time) == {m \in DOMAIN mh : mh[m] < cutoff_time}

\* The head of get_recent_messages_for_deletion (lines 1136-1150): the message
\* ids of the whole history older than the cutoff, ascending.  chat_id plays no
\* part in the selection.
SweepTargets(chat, cutoff_time) ==
    SortedSeq(get_messages_older_than(
                  cleanup_old_message_history(message_history, now), cutoff_time))

DeleteOutcomes == {"ok", "not_found", "protected", "error"}

\* One pass of the deletion loop (lines 1156-1181) on message msg: the history after it.
HistoryAfterDeleteOkOnly(mh, msg, outcome) ==
    IF outcome = "ok" THEN Del(mh, msg) ELSE mh

HistoryAfterDelete(mh, msg, outcome) ==
    IF outcome \in {"ok", "not_found"} THEN Del(mh, msg) ELSE mh

SweepAfterDeleteGoneOnly(sw, outcome) ==
    [sw EXCEPT !.idx = @ + 1,
               !.deleted = IF outcome = "ok" THEN @ + 1 ELSE @,
               !.errors = IF outcome = "not_found" THEN @ + 1 ELSE @,
               !.outcome = outcome]

SweepAfterDeleteCountsGone(sw, outcome) ==
    [sw EXCEPT !.idx = @ + 1,
               !.deleted = IF outcome \in {"ok", "not_found"} THEN @ + 1 ELSE @,
               !.errors = IF outcome \in {"ok", "not_found"} THEN @ ELSE @ + 1,
               !.outcome = outcome]

\* The loop's counters after the pass.
SweepAfterDelete(sw, outcome) ==
    [sw EXCEPT !.idx = @ + 1,
               !.deleted = IF outcome = "ok" THEN @ + 1 ELSE @,
               !.errors = IF outcome = "ok" THEN @ ELSE @ + 1,
               !.outcome = outcome]

SweepInProgress ==
    \/ oneshot.pc = "sweeping"
    \/ \E t \in DOMAIN tasks : tasks[t].pc = "sweeping"

(***************************************************************************)
(* Recurring auto-deletion tasks.                                          *)
(***************************************************************************)
\* "if not (5 <= minutes <= 1440)" (lines 768, 790, 839)
InTimerRange(minutes) == MIN_TIMER <= minutes /\ minutes <= MAX_WINDOW

InAutoRangeAsTimer(minutes) == MIN_TIMER <= minutes /\ minutes <= MAX_WINDOW

\* "if not (10 <= minutes <= 1440)" (line 809)
InAutoRange(minutes) == MIN_AUTO <= minutes /\ minutes <= MAX_WINDOW

AlreadyActiveNever(chat, minutes) == FALSE

AlreadyActive(chat, minutes) ==
    chat \in DOMAIN auto_deletion_tasks /\ minutes \in DOMAIN auto_deletion_tasks[chat]

NewTask(chat, minutes) ==
    [pc |-> "sleeping", chat |-> chat, minutes |-> minutes, wake |-> now + CADENCE,
     targets |-> <<>>, idx |-> 0, deleted |-> 0, errors |-> 0, outcome |-> "none",
     last_sweep_at |-> -1, stopped_at |-> -1]

\* start_auto_deletion: create the task and store it under (chat, minutes).
start_auto_deletion(chat, minutes) ==
    LET id == Cardinality(DOMAIN tasks) + 1
    IN  /\ tasks' = Put(tasks, id, NewTask(chat, minutes))
        /\ auto_deletion_tasks' =
               Put(auto_deletion_tasks, chat,
                   Put(Get(auto_deletion_tasks, chat, EmptyDict), minutes, id))

\* task.cancel(): CancelledError is raised in the coroutine at the await it is
\* suspended in (the sleep, or a delete_message inside the sweep); it is not an
\* Exception, so only auto_delete_task's own handler catches it, and breaks.
cancel_noop(task) == task

\* Nothing of the coroutine's frame outlives it.
cancel(task) == [NewTask(task.chat, task.minutes) EXCEPT !.pc = "done", !.wake = -1]

\* The stop directive reached this task (kept for the record of the run).
MarkStopped(task) == [task EXCEPT !.stopped_at = now]


\* handle_auto_deletion
handle_auto_deletion(isadm, chat, minutes) ==
    /\ DispatcherFree
    /\ IF ~isadm
       THEN /\ last_cmd' = Cmd("auto", 0, chat, 0, 0, 0, "admins_only")
            /\ UNCHANGED <<tasks, auto_deletion_tasks>>
       ELSE IF ~InAutoRange(minutes)
       THEN /\ last_cmd' = Cmd("auto", 0, chat, 0, minutes, 0, "out_of_range")
            /\ UNCHANGED <<tasks, auto_deletion_tasks>>
       ELSE IF AlreadyActive(chat, minutes)
       THEN /\ last_cmd' = Cmd("auto", 0, chat, 0, minutes, 0, "already_active")
            /\ UNCHANGED <<tasks, auto_deletion_tasks>>
       ELSE /\ Cardinality(DOMAIN tasks) < MaxTasks
            /\ start_auto_deletion(chat, minutes)
            /\ last_cmd' = Cmd("auto", 0, chat, 0, minutes, 0, "started")
    /\ actions' = <<>>
    /\ UNCHANGED <<ledgerVars, trustVars, message_history, oneshot, delete_requests,
                   confirmed, now, ticks, next_msg_id, msg_chat>>
    /\ UNCHANGED last_preview

\* stop_auto_deletion_command with one argument
StopOneWithoutCancel(chat, minutes) ==
    IF ~AlreadyActive(chat, minutes)
    THEN /\ last_cmd' = Cmd("stop_auto", 0, chat, 0, minutes, 0, "not_active")
         /\ UNCHANGED <<tasks, auto_deletion_tasks>>
    ELSE LET id == auto_deletion_tasks[chat][minutes]
             rest == Del(auto_deletion_tasks[chat], minutes)
         IN  /\ tasks' = [tasks EXCEPT ![id] = MarkStopped(@)]
             /\ auto_deletion_tasks' =
                    IF DOMAIN rest = {} THEN Del(auto_deletion_tasks, chat)
                    ELSE Put(auto_deletion_tasks, chat, rest)
             /\ last_cmd' = Cmd("stop_auto", 0, chat, 0, minutes, 0, "stopped")

StopOne(chat, minutes) ==
    IF ~AlreadyActive(chat, minutes)
    THEN /\ last_cmd' = Cmd("stop_auto", 0, chat, 0, minutes, 0, "not_active")
         /\ UNCHANGED <<tasks, auto_deletion_tasks>>
    ELSE LET id == auto_deletion_tasks[chat][minutes]
             rest == Del(auto_deletion_tasks[chat], minutes)
         IN  /\ tasks' = [tasks EXCEPT ![id] = MarkStopped(cancel(@))]
             /\ auto_deletion_tasks' =
                    IF DOMAIN rest = {} THEN Del(auto_deletion_tasks, chat)
                    ELSE Put(auto_deletion_tasks, chat, rest)
             /\ last_cmd' = Cmd("stop_auto", 0, chat, 0, minutes, 0, "stopped")

StopAllChats(chat) ==
    IF chat \notin DOMAIN auto_deletion_tasks \/ DOMAIN auto_deletion_tasks[chat] = {}
    THEN /\ last_cmd' = Cmd("stop_auto", 0, chat, 0, 0, 0, "not_active")
         /\ UNCHANGED <<tasks, auto_deletion_tasks>>
    ELSE /\ tasks' = [t \in DOMAIN tasks |->
                         IF tasks[t].pc = "done" THEN tasks[t]
                         ELSE MarkStopped(cancel(tasks[t]))]
         /\ auto_deletion_tasks' = EmptyDict
         /\ last_cmd' = Cmd("stop_auto", 0, chat, 0, 0, 0, "stopped_all")

\* stop_auto_deletion_command without arguments
StopAll(chat) ==
    IF chat \notin DOMAIN auto_deletion_tasks \/ DOMAIN auto_deletion_tasks[chat] = {}
    THEN /\ last_cmd' = Cmd("stop_auto", 0, chat, 0, 0, 0, "not_active")
         /\ UNCHANGED <<tasks, auto_deletion_tasks>>
    ELSE LET ids == {auto_deletion_tasks[chat][m] : m \in DOMAIN auto_deletion_tasks[chat]}
         IN  /\ tasks' = [t \in DOMAIN tasks |->
                             IF t \in ids THEN MarkStopped(cancel(tasks[t])) ELSE tasks[t]]
             /\ auto_deletion_tasks' = Del(auto_deletion_tasks, chat)
             /\ last_cmd' = Cmd("stop_auto", 0, chat, 0, 0, 0, "stopped_all")

\* minutes = 0 stands for the directive without an argument.
stop_auto_deletion_command(isadm, chat, minutes) ==
    /\ DispatcherFree
    /\ IF ~isadm
       THEN /\ last_cmd' = Cmd("stop_auto", 0, chat, 0, 0, 0, "admins_only")
            /\ UNCHANGED <<tasks, auto_deletion_tasks>>
       ELSE IF minutes = 0 THEN StopAll(chat)
       ELSE StopOne(chat, minutes)
    /\ actions' = <<>>
    /\ UNCHANGED <<ledgerVars, trustVars, message_history, oneshot, delete_requests,
                   confirmed, now, ticks, next_msg_id, msg_chat>>
    /\ UNCHANGED last_preview

\* auto_delete_task wakes from asyncio.sleep(600): the check of lines 1061-1063,
\* then the sweep up to its first delete_message.  A sweep without targets
\* returns at once and the task sleeps again.
TaskWake(t) ==
    /\ t \in DOMAIN tasks
    /\ tasks[t].pc = "sleeping"
    /\ now >= tasks[t].wake
    /\ LET task == tasks[t]
           targets == SweepTargets(task.chat, now - task.minutes)
       IN  IF ~AlreadyActive(task.chat, task.minutes)
           THEN /\ tasks' = [tasks EXCEPT ![t].pc = "done"]
                /\ UNCHANGED message_history
           ELSE /\ message_history' = cleanup_old_message_history(message_history, now)
                /\ tasks' = [tasks EXCEPT ![t] =
                      [task EXCEPT !.pc = IF targets = <<>> THEN "sleeping" ELSE "sweeping",
                                   !.wake = IF targets = <<>> THEN now + CADENCE ELSE @,
                                   !.targets = targets, !.idx = 0, !.deleted = 0,
                                   !.errors = 0, !.outcome = "none",
                                   !.last_sweep_at = now]]
    /\ UNCHANGED <<ledgerVars, trustVars, auto_deletion_tasks, oneshot, delete_requests,
                   confirmed, now, ticks, next_msg_id, msg_chat, last_cmd, actions>>
    /\ UNCHANGED last_preview

TaskDeleteEndsOnFailure(t, outcome) ==
    /\ t \in DOMAIN tasks
    /\ tasks[t].pc = "sweeping"
    /\ LET task == tasks[t]
           msg == task.targets[task.idx + 1]
           after == SweepAfterDelete(task, outcome)
       IN  /\ delete_requests' = delete_requests \cup {<<task.chat, msg>>}
           /\ message_history' = HistoryAfterDelete(message_history, msg, outcome)
           /\ tasks' = [tasks EXCEPT ![t] =
                  IF outcome = "error" THEN cancel(task)
                  ELSE IF after.idx = Len(after.targets)
                  THEN [after EXCEPT !.pc = "sleeping", !.wake = now + CADENCE,
                                     !.targets = <<>>, !.idx = 0, !.deleted = 0,
                                     !.errors = 0, !.outcome = "none"]
                  ELSE after]
    /\ UNCHANGED <<ledgerVars, trustVars, auto_deletion_tasks, oneshot, confirmed,
                   now, ticks, next_msg_id, msg_chat, last_cmd, actions>>
    /\ UNCHANGED last_preview

\* One delete_message of the task's sweep; after the last one the sweep returns,
\* its result is logged and dropped, and the task sleeps again.
TaskDelete(t, outcome) ==
    /\ t \in DOMAIN tasks
    /\ tasks[t].pc = "sweeping"
    /\ LET task == tasks[t]
           msg == task.targets[task.idx + 1]
           after == SweepAfterDelete(task, outcome)
       IN  /\ delete_requests' = delete_requests \cup {<<task.chat, msg>>}
           /\ message_history' = HistoryAfterDelete(message_history, msg, outcome)
           /\ tasks' = [tasks EXCEPT ![t] =
                  IF after.idx = Len(after.targets)
                  THEN [after EXCEPT !.pc = "sleeping", !.wake = now + CADENCE,
                                     !.targets = <<>>, !.idx = 0, !.deleted = 0,
                                     !.errors = 0, !.outcome = "none"]
                  ELSE after]
    /\ UNCHANGED <<ledgerVars, trustVars, auto_deletion_tasks, oneshot, confirmed,
                   now, ticks, next_msg_id, msg_chat, last_cmd, actions>>
    /\ UNCHANGED last_preview

(***************************************************************************)
(* One-shot sweeps: /<minutes> and /confirm<minutes>.                      *)
(***************************************************************************)
\* delete_messages_by_time: the progress notice, then the sweep up to its first
\* delete_message.  When the notice cannot be sent the except branch reports the
\* failure and nothing is swept.
delete_messages_by_time(kind, chat, minutes, sent) ==
    LET targets == SweepTargets(chat, now - minutes)
    IN  IF ~sent
        THEN /\ last_cmd' = Cmd(kind, 0, chat, 0, minutes, 0, "failed")
             /\ actions' = <<Call("notice_progress", FALSE, chat, minutes, 0, <<>>),
                             Call("notice_failed", TRUE, chat, minutes, 0, <<>>)>>
             /\ UNCHANGED <<message_history, oneshot>>
        ELSE /\ message_history' = cleanup_old_message_history(message_history, now)
             /\ actions' = <<Call("notice_progress", TRUE, chat, minutes, 0, <<>>)>>
             /\ oneshot' = [pc |-> IF targets = <<>> THEN "idle" ELSE "sweeping",
                            chat |-> chat, minutes |-> minutes, targets |-> targets,
                            idx |-> 0, deleted |-> 0, errors |-> 0, outcome |-> "none"]
             /\ last_cmd' = Cmd(kind, 0, chat, 0, minutes, 0,
                                IF targets = <<>> THEN "complete" ELSE "sweeping")

NeedsConfirmationNever(minutes) == FALSE

\* "Confirm large deletions" (line 773)
NeedsConfirmation(minutes) == minutes > CONFIRM_ABOVE

handle_timer_deletion(isadm, chat, minutes, sent) ==
    /\ DispatcherFree
    /\ IF ~isadm
       THEN /\ last_cmd' = Cmd("timer", 0, chat, 0, 0, 0, "admins_only")
            /\ actions' = <<>>
            /\ UNCHANGED <<message_history, oneshot>>
       ELSE IF ~InTimerRange(minutes)
       THEN /\ last_cmd' = Cmd("timer", 0, chat, 0, minutes, 0, "out_of_range")
            /\ actions' = <<>>
            /\ UNCHANGED <<message_history, oneshot>>
       ELSE IF NeedsConfirmation(minutes)
       THEN /\ last_cmd' = Cmd("timer", 0, chat, 0, minutes, 0, "confirm_required")
            /\ actions' = <<>>
            /\ UNCHANGED <<message_history, oneshot>>
       ELSE delete_messages_by_time("timer", chat, minutes, sent)
    /\ UNCHANGED <<ledgerVars, trustVars, auto_deletion_tasks, tasks, delete_requests,
                   confirmed, now, ticks, next_msg_id, msg_chat>>
    /\ UNCHANGED last_preview

handle_confirm_deletion(isadm, chat, minutes, sent) ==
    /\ DispatcherFree
    /\ IF ~isadm
       THEN /\ last_cmd' = Cmd("confirm", 0, chat, 0, 0, 0, "admins_only")
            /\ actions' = <<>>
            /\ UNCHANGED <<message_history, oneshot, confirmed>>
       ELSE IF ~InTimerRange(minutes)
       THEN /\ last_cmd' = Cmd("confirm", 0, chat, 0, minutes, 0, "out_of_range")
            /\ actions' = <<>>
            /\ UNCHANGED <<message_history, oneshot, confirmed>>
       ELSE /\ confirmed' = confirmed \cup {<<chat, minutes>>}
            /\ delete_messages_by_time("confirm", chat, minutes, sent)
    /\ UNCHANGED <<ledgerVars, trustVars, auto_deletion_tasks, tasks, delete_requests,
                   now, ticks, next_msg_id, msg_chat>>
    /\ UNCHANGED last_preview

\* One delete_message of the dispatcher's sweep; after the last one the result
\* is reported and the dispatcher is free again.
OneShotDelete(outcome) ==
    /\ oneshot.pc = "sweeping"
    /\ LET msg == oneshot.targets[oneshot.idx + 1]
           after == SweepAfterDelete(oneshot, outcome)
           finished == after.idx = Len(after.targets)
       IN  /\ delete_requests' = delete_requests \cup {<<oneshot.chat, msg>>}
           /\ message_history' = HistoryAfterDelete(message_history, msg, outcome)
           /\ oneshot' = IF finished THEN [after EXCEPT !.pc = "idle"] ELSE after
           /\ last_cmd' = IF finished THEN [last_cmd EXCEPT !.reply = "complete"] ELSE last_cmd
    /\ UNCHANGED <<ledgerVars, trustVars, auto_deletion_tasks, tasks, confirmed,
                   now, ticks, next_msg_id, msg_chat, actions>>
    /\ UNCHANGED last_preview

(***************************************************************************)
(* The dry run: /preview<minutes>.                                         *)
(***************************************************************************)
\* The report preview_deletion edits into its progress message (lines
\* 976-1039), with the tracked set it was computed from.
PreviewReport(chat, minutes, mh) ==
    LET old_message_ids == get_messages_older_than(mh, now - minutes)
        total_messages == Cardinality(DOMAIN mh)
    IN  [chat |-> chat, minutes |-> minutes, cutoff |-> now - minutes,
         will_delete |-> Cardinality(old_message_ids),
         newer |-> total_messages - Cardinality(old_message_ids),
         total |-> total_messages, snapshot |-> DOMAIN mh]

\* preview_deletion: the progress notice, cleanup_old_message_history, the
\* selection and the report.  A failed send or edit is answered by the except
\* branch with a failure notice.
preview_deletion(chat, minutes, sent, edited) ==
    LET mh == cleanup_old_message_history(message_history, now)
        report == PreviewReport(chat, minutes, mh)
    IN  IF ~sent
        THEN /\ last_cmd' = Cmd("preview", 0, chat, 0, minutes, 0, "failed")
             /\ actions' = <<Call("notice_preview", FALSE, chat, minutes, 0, <<>>),
                             Call("notice_failed", TRUE, chat, minutes, 0, <<>>)>>
             /\ UNCHANGED <<message_history, last_preview>>
        ELSE /\ message_history' = mh
             /\ IF edited
                THEN /\ last_preview' = report
                     /\ last_cmd' = Cmd("preview", 0, chat, 0, minutes, 0, "previewed")
                     /\ actions' = <<Call("notice_preview", TRUE, chat, minutes, 0, <<>>),
                                     Call("edit_preview", TRUE, chat, report.will_delete,
                                          report.newer, <<>>)>>
                ELSE /\ UNCHANGED last_preview
                     /\ last_cmd' = Cmd("preview", 0, chat, 0, minutes, 0, "failed")
                     /\ actions' = <<Call("notice_preview", TRUE, chat, minutes, 0, <<>>),
                                     Call("edit_preview", FALSE, chat, report.will_delete,
                                          report.newer, <<>>),
                                     Call("notice_failed", TRUE, chat, minutes, 0, <<>>)>>

handle_preview_deletion(isadm, chat, minutes, sent, edited) ==
    /\ DispatcherFree
    /\ IF ~isadm
       THEN /\ last_cmd' = Cmd("preview", 0, chat, 0, 0, 0, "admins_only")
            /\ actions' = <<>>
            /\ UNCHANGED <<message_history, last_preview>>
       ELSE IF ~InTimerRange(minutes)
       THEN /\ last_cmd' = Cmd("preview", 0, chat, 0, minutes, 0, "out_of_range")
            /\ actions' = <<>>
            /\ UNCHANGED <<message_history, last_preview>>
       ELSE preview_deletion(chat, minutes, sent, edited)
    /\ UNCHANGED <<ledgerVars, trustVars, auto_deletion_tasks, tasks, oneshot,
                   delete_requests, confirmed, now, ticks, next_msg_id, msg_chat>>

\* The clock advances by d minutes.  A sleeping task wakes when its sleep is
\* over, so the clock does not pass a pending wake-up; a sweep of the few
\* messages of this model takes less than a minute.
Tick(d) ==
    /\ ticks < MaxTicks
    /\ ~SweepInProgress
    /\ \A t \in DOMAIN tasks : tasks[t].pc = "sleeping" => now + d <= tasks[t].wake
    /\ now' = now + d
    /\ ticks' = ticks + 1
    /\ UNCHANGED <<ledgerVars, trustVars, retentionVars, next_msg_id, msg_chat,
                   last_cmd, actions>>
    /\ UNCHANGED last_preview

(***************************************************************************)
(* The retention scheduler is checked under three specifications, which    *)
(* differ in the directives the admins issue:                              *)
(*   SpecRetention: one-shot sweeps (/<minutes>, /confirm<minutes>)        *)
(*   SpecAuto:      recurring tasks (/auto<minutes>, /stop_auto)           *)
(*   SpecGate:      large windows only: /confirm<minutes> and              *)
(*                  /auto<minutes> above the confirmation threshold        *)
(* Messages are observed through handle_text_message; they are written by  *)
(* an admin, so the handler returns after track_message.                   *)
(***************************************************************************)
TimerMinutes == {3, 7, 200, 1500}
AutoMinutes == {7, 10, 200}
StopMinutes == {0, 10, 200}
LargeMinutes == {200}
TickSteps == {CADENCE, 200}
Issuers == {1, 9}
DirectiveChats == {100}

ObserveMessage ==
    /\ next_msg_id <= MaxTracked
    /\ \E u \in ConfigAdmins, chat \in Chats :
           \E isadm \in IsAdminOutcomes(u) : handle_text_message(u, chat, "hello", isadm, AllOk)

ObserveInChat ==
    /\ next_msg_id <= MaxTracked
    /\ \E u \in ConfigAdmins, chat \in DirectiveChats :
           \E isadm \in IsAdminOutcomes(u) : handle_text_message(u, chat, "hello", isadm, AllOk)

TimerDirective ==
    \E issuer \in Issuers, chat \in DirectiveChats, minutes \in TimerMinutes, sent \in BOOLEAN :
        \E isadm \in IsAdminOutcomes(issuer) : handle_timer_deletion(isadm, chat, minutes, sent)

ConfirmDirective ==
    \E issuer \in Issuers, chat \in DirectiveChats, minutes \in TimerMinutes, sent \in BOOLEAN :
        \E isadm \in IsAdminOutcomes(issuer) : handle_confirm_deletion(isadm, chat, minutes, sent)

ConfirmLarge ==
    \E chat \in DirectiveChats, minutes \in LargeMinutes, sent \in BOOLEAN :
        handle_confirm_deletion(TRUE, chat, minutes, sent)

AutoDirective ==
    \E issuer \in Issuers, chat \in DirectiveChats, minutes \in AutoMinutes :
        \E isadm \in IsAdminOutcomes(issuer) : handle_auto_deletion(isadm, chat, minutes)

StopDirective ==
    \E issuer \in Issuers, chat \in DirectiveChats, minutes \in StopMinutes :
        \E isadm \in IsAdminOutcomes(issuer) : stop_auto_deletion_command(isadm, chat, minutes)

TaskStep ==
    \E t \in 1..MaxTasks :
        \/ TaskWake(t)
        \/ \E outcome \in DeleteOutcomes : TaskDelete(t, outcome)

OneShotStep == \E outcome \in DeleteOutcomes : OneShotDelete(outcome)

TimePasses == \E d \in TickSteps : Tick(d)

CadencePasses == Tick(CADENCE)

AutoLarge ==
    \E chat \in DirectiveChats, minutes \in LargeMinutes :
        handle_auto_deletion(TRUE, chat, minutes)

NextRetention ==
    \/ ObserveInChat
    \/ TimerDirective
    \/ ConfirmDirective
    \/ OneShotStep
    \/ TimePasses

SpecRetention == Init /\ [][NextRetention]_vars

NextAuto ==
    \/ ObserveInChat
    \/ AutoDirective
    \/ StopDirective
    \/ TaskStep
    \/ CadencePasses

SpecAuto == Init /\ [][NextAuto]_vars

NextGate ==
    \/ ObserveMessage
    \/ ConfirmLarge
    \/ AutoLarge
    \/ TaskStep
    \/ OneShotStep
    \/ TimePasses

SpecGate == Init /\ [][NextGate]_vars

(***************************************************************************)
(* SpecTrust: the trust scorer under text events, /trust, /reset_warnings  *)
(* and a clock that advances by days.                                      *)
(***************************************************************************)
TrustTexts == {"hello", "fuck you"}
NewScores == {90, 101}
TrustModes == {"usage", "view", "set"}
DaySteps == {MINUTES_PER_DAY, 10 * MINUTES_PER_DAY}

ScoredTextEvent ==
    \E u \in Users, chat \in LedgerChats, t \in TrustTexts :
        \E isadm \in IsAdminOutcomes(u) : handle_text_message(u, chat, t, isadm, AllOk)

TrustDirective ==
    \E issuer \in Issuers, mode \in TrustModes, u \in Users, new_score \in NewScores :
        \E isadm \in IsAdminOutcomes(issuer) : trust_command(isadm, mode, u, new_score)

DaysPass == \E d \in DaySteps : Tick(d)

NextTrust ==
    \/ ScoredTextEvent
    \/ TrustDirective
    \/ ResetWarnings
    \/ DaysPass

SpecTrust == Init /\ [][NextTrust]_vars

(***************************************************************************)
(* SpecEdit: text events and edits of the messages seen so far.            *)
(***************************************************************************)
NextEdit ==
    \/ ScoredTextEvent
    \/ EditedEvent

SpecEdit == Init /\ [][NextEdit]_vars

(***************************************************************************)
(* SpecPreview: /preview<minutes> and /<minutes> of an admin on the same   *)
(* chat, with a clock that can pass the 48 hour ceiling in one step.       *)
(***************************************************************************)
PreviewMinutes == {3, 7}
PreviewTicks == {10, 2890}

PreviewDirective ==
    \E issuer \in Issuers, chat \in DirectiveChats, minutes \in PreviewMinutes,
       sent \in BOOLEAN, edited \in BOOLEAN :
        \E isadm \in IsAdminOutcomes(issuer) :
            handle_preview_deletion(isadm, chat, minutes, sent, edited)

SweepDirective ==
    \E chat \in DirectiveChats, minutes \in PreviewMinutes, sent \in BOOLEAN :
        handle_timer_deletion(TRUE, chat, minutes, sent)

PreviewTimePasses == \E d \in PreviewTicks : Tick(d)

NextPreview ==
    \/ ObserveInChat
    \/ PreviewDirective
    \/ SweepDirective
    \/ OneShotStep
    \/ PreviewTimePasses

SpecPreview == Init /\ [][NextPreview]_vars

(***************************************************************************)
(* SpecCleanup: the periodic cleanup task under observed messages and a    *)
(* clock that advances by hours.                                           *)
(***************************************************************************)
\* One round of periodic_cleanup_task: the task was created at time 0, sleeps
\* an hour and calls cleanup_old_message_history, which takes less than a
\* minute; the round is kept in last_cmd.  It is a task of its own and does
\* not wait for the dispatcher.
periodic_cleanup_task ==
    /\ now > 0
    /\ now % CLEANUP_CADENCE = 0
    /\ message_history' = cleanup_old_message_history(message_history, now)
    /\ last_cmd' = Cmd("cleanup", 0, 0, 0, 0, 0, "done")
    /\ actions' = <<>>
    /\ UNCHANGED <<ledgerVars, trustVars, auto_deletion_tasks, tasks, oneshot,
                   delete_requests, confirmed, now, ticks, next_msg_id, msg_chat,
                   last_preview>>

CleanupTicks == {CLEANUP_CADENCE, RETENTION_CEILING}

ObserveAny ==
    /\ next_msg_id <= MaxTracked + 1
    /\ \E u \in ConfigAdmins, chat \in Chats :
           \E isadm \in IsAdminOutcomes(u) : handle_text_message(u, chat, "hello", isadm, AllOk)

HoursPass ==
    /\ ticks <= MaxTicks
    /\ \E d \in CleanupTicks : now' = now + d
    /\ ticks' = ticks + 1
    /\ UNCHANGED <<ledgerVars, trustVars, retentionVars, next_msg_id, msg_chat,
                   last_cmd, actions, last_preview>>

NextCleanup ==
    \/ ObserveAny
    \/ periodic_cleanup_task
    \/ HoursPass

SpecCleanup == Init /\ [][NextCleanup]_vars

(***************************************************************************)
(* SpecRange: the four window directives of an admin with windows on both  *)
(* sides of each bound.  The windows inside the bounds are longer than the *)
(* age of any tracked message, so the sweeps find nothing to delete.       *)
(***************************************************************************)
RangeMinutes == {4, 1440, 1441}
AutoRangeMinutes == {9, 1440, 1441}

RangeTimer ==
    \E chat \in DirectiveChats, minutes \in RangeMinutes :
        handle_timer_deletion(TRUE, chat, minutes, TRUE)

RangeConfirm ==
    \E chat \in DirectiveChats, minutes \in RangeMinutes :
        handle_confirm_deletion(TRUE, chat, minutes, TRUE)

RangePreview ==
    \E chat \in DirectiveChats, minutes \in RangeMinutes :
        handle_preview_deletion(TRUE, chat, minutes, TRUE, TRUE)

RangeAuto ==
    \E chat \in DirectiveChats, minutes \in AutoRangeMinutes :
        handle_auto_deletion(TRUE, chat, minutes)

TaskWakes == \E t \in 1..MaxTasks : TaskWake(t)

NextRange ==
    \/ ObserveInChat
    \/ RangeTimer
    \/ RangeConfirm
    \/ RangePreview
    \/ RangeAuto
    \/ TaskWakes
    \/ CadencePasses

SpecRange == Init /\ [][NextRange]_vars

(***************************************************************************)
(* SpecStop: recurring tasks of two windows in two chats, started and      *)
(* stopped by an admin.  No message is tracked, so every sweep returns at  *)
(* once.                                                                   *)
(***************************************************************************)
StopWindows == {10, 200}

AutoTwoChats ==
    \E chat \in Chats, minutes \in StopWindows : handle_auto_deletion(TRUE, chat, minutes)

StopTwoChats ==
    \E chat \in Chats, minutes \in {0} \cup StopWindows :
        stop_auto_deletion_command(TRUE, chat, minutes)

NextStop ==
    \/ AutoTwoChats
    \/ StopTwoChats
    \/ TaskWakes
    \/ CadencePasses

SpecStop == Init /\ [][NextStop]_vars

(***************************************************************************)
(* SpecLive: one recurring task of the shortest window on one chat, under  *)
(* fairness: the event loop resumes a coroutine whose sleep is over or     *)
(* whose transport call has returned, and the clock goes on.  The clock is *)
(* cut off one cadence later than in the other specifications.             *)
(***************************************************************************)
LiveWindow == MIN_AUTO

AutoLive == handle_auto_deletion(TRUE, 100, LiveWindow)

StopLive == stop_auto_deletion_command(TRUE, 100, LiveWindow)

\* The clock reaches the next wake-up of the sleeping tasks.
CadenceGoesOn ==
    /\ ticks <= MaxTicks
    /\ ~SweepInProgress
    /\ \A t \in DOMAIN tasks : tasks[t].pc = "sleeping" => now + CADENCE <= tasks[t].wake
    /\ now' = now + CADENCE
    /\ ticks' = ticks + 1
    /\ UNCHANGED <<ledgerVars, trustVars, retentionVars, next_msg_id, msg_chat,
                   last_cmd, actions, last_preview>>

NextLive ==
    \/ ObserveInChat
    \/ AutoLive
    \/ StopLive
    \/ TaskStep
    \/ CadenceGoesOn

SpecLive ==
    /\ Init /\ [][NextLive]_vars
    /\ WF_vars(CadenceGoesOn)
    /\ \A t \in 1..MaxTasks :
           WF_vars(TaskWake(t) \/ \E outcome \in DeleteOutcomes : TaskDelete(t, outcome))

(***************************************************************************)
(* SpecTrack: messages tracked while a recurring task sweeps.  The         *)
(* transport numbers messages per chat, so a message of chat 200 can carry *)
(* the id of a message of chat 100; message_history is keyed by the id     *)
(* alone (line 722).  Messages of chat 100 get the ids the counter gives,  *)
(* messages of chat 200 get ids chat 100 has used, in ascending order.     *)
(***************************************************************************)
OtherChat == 200

\* handle_text_message for a text of a configured admin in OtherChat that
\* carries the id m: track_message (line 213), then the return of line 217.
handle_text_message_with_id(u, chat, m) ==
    /\ DispatcherFree
    /\ TrackMessage(m, chat)
    /\ NoEffect("text", u, chat, m, "admin")
    /\ UNCHANGED <<trustVars, auto_deletion_tasks, now, ticks, tasks, oneshot,
                   delete_requests, confirmed, next_msg_id, last_preview>>

ObserveSameId ==
    \E u \in ConfigAdmins, m \in DOMAIN msg_chat :
        /\ msg_chat[m] # OtherChat
        /\ \A x \in DOMAIN msg_chat : msg_chat[x] = OtherChat => x < m
        /\ handle_text_message_with_id(u, OtherChat, m)

NextTrack == ObserveInChat \/ ObserveSameId \/ AutoLive \/ TaskStep \/ CadencePasses

SpecTrack == Init /\ [][NextTrack]_vars

(***************************************************************************)
(* SpecRace: sweeps over one tracked set that interleave at their          *)
(* delete_message calls: two recurring tasks of chat 100 with different    *)
(* windows and the one-shot sweep of /<minutes>.  The transport deletes a  *)
(* message once: a request for a message that an earlier request of the    *)
(* same chat has removed is answered "not found" (or fails otherwise).     *)
(***************************************************************************)
RaceWindows == {10, 20}

AlreadyRemoved(chat, msg) ==
    <<chat, msg>> \in delete_requests /\ msg \notin DOMAIN message_history

TransportOutcomes(chat, msg) ==
    IF AlreadyRemoved(chat, msg) THEN {"not_found", "error"} ELSE DeleteOutcomes

RaceAuto == \E minutes \in RaceWindows : handle_auto_deletion(TRUE, 100, minutes)

RaceTimer == handle_timer_deletion(TRUE, 100, MIN_AUTO, TRUE)

RaceTaskDelete ==
    \E t \in DOMAIN tasks :
        /\ tasks[t].pc = "sweeping"
        /\ \E outcome \in TransportOutcomes(tasks[t].chat, tasks[t].targets[tasks[t].idx + 1]) :
               TaskDelete(t, outcome)

RaceOneShotDelete ==
    /\ oneshot.pc = "sweeping"
    /\ \E outcome \in TransportOutcomes(oneshot.chat, oneshot.targets[oneshot.idx + 1]) :
           OneShotDelete(outcome)

NextRace ==
    \/ ObserveInChat
    \/ RaceAuto
    \/ RaceTimer
    \/ TaskWakes
    \/ RaceTaskDelete
    \/ RaceOneShotDelete
    \/ CadencePasses

SpecRace == Init /\ [][NextRace]_vars

(***************************************************************************)
(* SpecDenied: directives of a user for whom is_admin answers False, sent  *)
(* while messages are tracked, a recurring task is active and the user has *)
(* a ledger and a trust record.                                            *)
(***************************************************************************)
DeniedMinutes == {MIN_AUTO, 200}
DeniedStopMinutes == {0, MIN_AUTO}

DeniedTimer ==
    \E chat \in DirectiveChats, minutes \in DeniedMinutes :
        handle_timer_deletion(FALSE, chat, minutes, TRUE)

DeniedConfirm ==
    \E chat \in DirectiveChats, minutes \in DeniedMinutes :
        handle_confirm_deletion(FALSE, chat, minutes, TRUE)

DeniedAuto ==
    \E chat \in DirectiveChats, minutes \in DeniedMinutes :
        handle_auto_deletion(FALSE, chat, minutes)

DeniedPreview ==
    \E chat \in DirectiveChats, minutes \in DeniedMinutes :
        handle_preview_deletion(FALSE, chat, minutes, TRUE, TRUE)

DeniedStop ==
    \E chat \in DirectiveChats, minutes \in DeniedStopMinutes :
        stop_auto_deletion_command(FALSE, chat, minutes)

DeniedTrust ==
    \E mode \in TrustModes, u \in Users, new_score \in NewScores :
        trust_command(FALSE, mode, u, new_score)

DeniedReset ==
    \E issuer \in Users, u \in Users : reset_warnings_command(issuer, FALSE, u)

DeniedDirective ==
    \/ DeniedTimer
    \/ DeniedConfirm
    \/ DeniedAuto
    \/ DeniedPreview
    \/ DeniedStop
    \/ DeniedTrust
    \/ DeniedReset

NextDenied ==
    \/ ScoredTextEvent
    \/ AutoLive
    \/ DeniedDirective

SpecDenied == Init /\ [][NextDenied]_vars

(***************************************************************************)
(* Claims about the escalation ledger (checked under Spec).                *)
(***************************************************************************)
CountOf(acts, op) == Cardinality({i \in 1..Len(acts) : acts[i].op = op})
WarningCount(uw, u) == Get(uw, u, 0)
History(uv, u) == Get(uv, u, <<>>)

\* A step in which a content handler met an unsafe verdict.
UnsafeEventStep == next_msg_id' = next_msg_id + 1 /\ last_cmd'.reply = "unsafe"

WarnNoticeIn(acts, chat, n, left) ==
    \E i \in 1..Len(acts) :
        /\ acts[i].op = "notice_warn"
        /\ acts[i].target = chat
        /\ acts[i].n = n
        /\ acts[i].left = left

\* C1: when an unsafe verdict raises a user's warning_count to 3, exactly one
\* ban action is issued for that event, and right after the event the user's
\* warning_count and violation history are both empty.
C1_BanOnceThenLedgerEmpty ==
    last_cmd.wc = WARNING_LIMIT =>
        /\ CountOf(actions, "ban") = 1
        /\ WarningCount(user_warnings, last_cmd.user) = 0
        /\ History(user_violations, last_cmd.user) = <<>>

\* C2: an unsafe verdict that leaves the user's warning_count at n, 1 <= n < 3,
\* sends the chat a warn notice with "WARNING n/3" and 3 - n strikes left and
\* issues no ban; for a user with a clean ledger the first unsafe verdict gives n = 1.
C2_WarnBelowLimit ==
    [][UnsafeEventStep =>
        LET u == last_cmd'.user
            n == WarningCount(user_warnings', u)
        IN  /\ n \in 1..(WARNING_LIMIT - 1) =>
                   /\ WarnNoticeIn(actions', last_cmd'.chat, n, WARNING_LIMIT - n)
                   /\ CountOf(actions', "ban") = 0
            /\ WarningCount(user_warnings, u) = 0 => n = 1]_vars

\* C3: when the delete of the offending message fails, the violation is still
\* recorded (warning_count incremented, Violation appended) and the warn or ban
\* of that verdict is still issued.
C3_DeleteFailureDoesNotBlock ==
    [][(UnsafeEventStep /\ actions'[1].op = "delete" /\ ~actions'[1].ok) =>
        LET u == last_cmd'.user
        IN  /\ last_cmd'.wc = WarningCount(user_warnings, u) + 1
            /\ CountOf(actions', "notice_warn") + CountOf(actions', "ban") >= 1]_vars

(***************************************************************************)
(* Claims about recurring auto-deletion tasks (checked under SpecAuto).    *)
(***************************************************************************)
LiveTasks == {t \in DOMAIN tasks : tasks[t].pc # "done"}

\* A step in which /auto<minutes> was answered "already active".
DuplicateStartStep ==
    last_cmd' # last_cmd /\ last_cmd'.kind = "auto" /\ last_cmd'.reply = "already_active"

\* C4 (state part): no two live auto-deletion tasks share a (chat, minutes)
\* pair, and the task map holds exactly the live tasks.
OneTaskPerPair ==
    /\ \A t1, t2 \in LiveTasks :
           (tasks[t1].chat = tasks[t2].chat /\ tasks[t1].minutes = tasks[t2].minutes) => t1 = t2
    /\ \A t \in LiveTasks :
           /\ tasks[t].chat \in DOMAIN auto_deletion_tasks
           /\ tasks[t].minutes \in DOMAIN auto_deletion_tasks[tasks[t].chat]
           /\ auto_deletion_tasks[tasks[t].chat][tasks[t].minutes] = t

\* C4: in every reachable state there is at most one auto-deletion task per
\* (chat_id, window_minutes) pair, and a start directive for a pair that has a
\* task is rejected, leaving the tasks and the task map as they were.
C4_OneTaskPerPair ==
    [][/\ OneTaskPerPair'
       /\ DuplicateStartStep =>
              /\ \E t \in LiveTasks : /\ tasks[t].chat = last_cmd'.chat
                                       /\ tasks[t].minutes = last_cmd'.minutes
              /\ UNCHANGED <<tasks, auto_deletion_tasks>>
       /\ (last_cmd' # last_cmd /\ last_cmd'.kind = "auto" /\ last_cmd'.reply = "started") =>
              ~(\E t \in LiveTasks : /\ tasks[t].chat = last_cmd'.chat
                                      /\ tasks[t].minutes = last_cmd'.minutes)]_vars

\* C4 witness: a duplicate /auto was rejected while two tasks with different
\* windows run in the same chat.
C4_Witness ==
    /\ last_cmd.kind = "auto" /\ last_cmd.reply = "already_active"
    /\ \E t1, t2 \in LiveTasks :
           tasks[t1].chat = tasks[t2].chat /\ tasks[t1].minutes # tasks[t2].minutes

\* C5: a sweep of an auto-deletion task, once inside its deletion loop, goes
\* through every message of its snapshot: from one step to the next the task
\* stays in the loop, or it has just handled the last message and sleeps.  A
\* stop directive arriving meanwhile does not end the sweep.
C5_SweepRunsToEnd ==
    [][\A t \in DOMAIN tasks :
          tasks[t].pc = "sweeping" =>
              \/ tasks'[t].pc = "sweeping"
              \/ /\ tasks'[t].pc = "sleeping"
                 /\ tasks[t].idx + 1 = Len(tasks[t].targets)]_vars

\* C6: a task that a stop directive has cancelled begins no sweep afterwards,
\* neither within the cadence interval that follows the stop nor at any later
\* cadence.
C6_NoSweepAfterStop ==
    [][\A t \in DOMAIN tasks :
          tasks[t].stopped_at >= 0 =>
              tasks'[t].last_sweep_at = tasks[t].last_sweep_at]_vars

\* C6 witness: a pair was stopped, a full cadence interval has passed since,
\* and a task started later for the same pair has begun a sweep while the
\* stopped one stayed silent.
C6_Witness ==
    \E t1, t2 \in DOMAIN tasks :
        /\ tasks[t1].stopped_at >= 0
        /\ now >= tasks[t1].stopped_at + CADENCE
        /\ tasks[t2].chat = tasks[t1].chat /\ tasks[t2].minutes = tasks[t1].minutes
        /\ tasks[t2].pc # "done"
        /\ tasks[t2].last_sweep_at >= tasks[t1].stopped_at + CADENCE

(***************************************************************************)
(* Claims about sweeps (SpecRetention, SpecGate).                          *)
(***************************************************************************)
\* C7: every delete request of a sweep in chat_id is for a message that was
\* observed in chat_id, and every message a sweep has taken out of the tracked
\* set was observed in the chat of that sweep.
C7_SweepStaysInChat ==
    /\ \A r \in delete_requests : msg_chat[r[2]] = r[1]
    /\ \A m \in DOMAIN msg_chat :
           m \notin DOMAIN message_history =>
               \E r \in delete_requests : r[2] = m /\ r[1] = msg_chat[m]

\* A step of the deletion loop of the dispatcher's sweep.
LoopStep == oneshot.pc = "sweeping" /\ oneshot' # oneshot

\* After a pass of the loop the sweep goes on with its snapshot, unless the
\* pass was the last one.
GoesOn ==
    /\ oneshot'.idx = oneshot.idx + 1
    /\ oneshot'.targets = oneshot.targets
    /\ oneshot'.pc = IF oneshot.idx + 1 < Len(oneshot.targets) THEN "sweeping" ELSE "idle"

\* C8: in a sweep, a delete failing because the message no longer exists takes
\* the message out of the tracked set; a delete failing because the message is
\* protected leaves the tracked set as it is and adds one to error_count; in
\* both cases the sweep goes on to the remaining messages of its snapshot.
C8_DeleteFailuresInSweep ==
    [][LoopStep =>
        LET msg == oneshot.targets[oneshot.idx + 1]
        IN  /\ oneshot'.outcome = "not_found" =>
                   /\ msg \notin DOMAIN message_history'
                   /\ GoesOn
            /\ oneshot'.outcome = "protected" =>
                   /\ message_history' = message_history
                   /\ msg \in DOMAIN message_history'
                   /\ oneshot'.errors = oneshot.errors + 1
                   /\ oneshot'.deleted = oneshot.deleted
                   /\ GoesOn]_vars

\* C8 witness: a sweep met a message that no longer exists, dropped it, went
\* on, and met a protected message, which is still tracked.
C8_Witness ==
    /\ oneshot.idx = 2
    /\ oneshot.outcome = "protected"
    /\ oneshot.errors = 2
    /\ oneshot.targets[1] \notin DOMAIN message_history
    /\ oneshot.targets[2] \in DOMAIN message_history

(***************************************************************************)
(* Claims about the confirmation gate (SpecRetention, SpecGate).           *)
(***************************************************************************)
\* A step in which an admin's /<minutes> (kind "timer") or /confirm<minutes>
\* (kind "confirm") was handled; a non-admin's directive is answered before
\* its minutes are read.
DirectiveStep(kind) ==
    /\ oneshot.pc = "idle"
    /\ last_cmd' # last_cmd
    /\ last_cmd'.kind = kind
    /\ last_cmd'.reply # "admins_only"

NothingDeleted ==
    /\ delete_requests' = delete_requests
    /\ message_history' = message_history
    /\ oneshot' = oneshot

\* The sweep with window n has taken its snapshot in the chat of the directive.
SweepRuns(n) ==
    /\ last_cmd'.reply \in {"sweeping", "complete"}
    /\ oneshot'.chat = last_cmd'.chat
    /\ oneshot'.minutes = n
    /\ oneshot'.targets =
           SortedSeq({m \in DOMAIN message_history :
                         /\ message_history[m] < now - n
                         /\ message_history[m] >= now - RETENTION_CEILING})
    /\ oneshot'.pc = IF oneshot'.targets = <<>> THEN "idle" ELSE "sweeping"

C10_LargeSweepsConfirmed ==
    /\ \A t \in DOMAIN tasks :
           (tasks[t].last_sweep_at >= 0 /\ tasks[t].minutes > CONFIRM_ABOVE) =>
               <<tasks[t].chat, tasks[t].minutes>> \in confirmed
    /\ (oneshot.chat # 0 /\ oneshot.minutes > CONFIRM_ABOVE) =>
           <<oneshot.chat, oneshot.minutes>> \in confirmed

(***************************************************************************)
(* Claims about the classifier (checked under SpecClassify).               *)
(***************************************************************************)
WasClassified == last_cmd.kind = "classify"

\* The rule hits of the last verdict, as a set of types.
HitTypes == {last_cmd.violations[i].type : i \in 1..Len(last_cmd.violations)}

\* C11: a text with an educational keyword and without a commercial-spam
\* match gets a safe verdict at every tier, whatever else matches in it.
C11_EducationalIsSafe ==
    (/\ WasClassified
     /\ TextFeatures(last_cmd.text).edu
     /\ ~TextFeatures(last_cmd.text).commercial) => last_cmd.reply = "safe"

\* C12: at the trusted tier a non-empty text is unsafe exactly when a
\* commercial-spam pattern matches it, and commercial_spam is the only rule
\* hit a trusted-tier verdict can carry.
C12_TrustedOnlyCommercial ==
    (WasClassified /\ last_cmd.tier = "trusted" /\ last_cmd.text # "") =>
        /\ last_cmd.reply = "unsafe" <=> TextFeatures(last_cmd.text).commercial
        /\ HitTypes \subseteq {"commercial_spam"}

\* C12 witness: a trusted-tier text with vulgar, spam and promotional matches
\* but no commercial-spam match was found safe.
C12_Witness ==
    /\ WasClassified /\ last_cmd.tier = "trusted"
    /\ last_cmd.reply = "safe"
    /\ \/ TextFeatures(last_cmd.text).vulgar
       \/ TextFeatures(last_cmd.text).competitor
    /\ ~TextFeatures(last_cmd.text).commercial

(***************************************************************************)
(* Claims about the trust scorer (checked under SpecTrust).                *)
(***************************************************************************)
\* A /trust <user_id> of an admin has reported the score of u in this step.
ViewStep(u) ==
    /\ last_cmd'.kind = "trust" /\ last_cmd'.reply = "report" /\ last_cmd'.user = u
    /\ now' = now

\* A text of the non-admin u has been handled in this step: the score was
\* queried at line 221 and is held in user_trust_scores.
TextQueryStep(u) ==
    /\ next_msg_id' # next_msg_id
    /\ last_cmd'.kind = "text" /\ last_cmd'.user = u
    /\ last_cmd'.reply \in {"safe", "unsafe"}

\* clamp(50 + min(20, 2 * days_since_join) - 15 * violation_count
\*       - 10 * warning_count, 0, 100) on the ledger as it is, in stored units;
\* a user without join_time has a tenure of 0.
ExpectedScore(u) ==
    LET tenure == now - Get(user_join_dates, u, now)
        bonus == IF tenure < 20 * SCORE_SCALE THEN tenure ELSE 20 * SCORE_SCALE
        raw == 50 * SCORE_SCALE + bonus
               - 15 * SCORE_SCALE * Len(Get(user_violations, u, <<>>))
               - 10 * SCORE_SCALE * Get(user_warnings, u, 0)
    IN  IF raw < 0 THEN 0 ELSE IF raw > 100 * SCORE_SCALE THEN 100 * SCORE_SCALE ELSE raw

C14_StoredScoreInRange ==
    \A u \in DOMAIN user_trust_scores :
        0 <= user_trust_scores[u] /\ user_trust_scores[u] <= 100 * SCORE_SCALE

\* C14 witness: an admin has set a score inside the range and it is stored.
C14_Witness ==
    /\ last_cmd.kind = "trust" /\ last_cmd.reply = "set"
    /\ user_trust_scores[last_cmd.user] = 90 * SCORE_SCALE

\* The violation and warning counts a ledger can hold.
Counts == 0..MaxWarnings

\* C15: at the tenure of every user with a join_time, of two ledger states
\* the one with at least as many violations and warnings has no higher score.
C15_MonotoneInCounts ==
    \A u \in DOMAIN user_join_dates :
        \A v1 \in Counts, v2 \in Counts, w1 \in Counts, w2 \in Counts :
            (v1 <= v2 /\ w1 <= w2) =>
                TrustFormula(w2, v2, user_join_dates[u], now)
                    <= TrustFormula(w1, v1, user_join_dates[u], now)

\* C15 witness: a user with tenure whose ledger holds warnings and violations
\* has a stored score below the score of an empty ledger at the same tenure.
C15_Witness ==
    \E u \in DOMAIN user_join_dates :
        /\ now > user_join_dates[u]
        /\ Get(user_warnings, u, 0) >= 1
        /\ Len(Get(user_violations, u, <<>>)) >= 1
        /\ last_cmd.kind = "text" /\ last_cmd.user = u /\ last_cmd.reply = "unsafe"
        /\ user_trust_scores[u] < TrustFormula(0, 0, user_join_dates[u], now)

\* The last event was the text of u that reached the warning limit: u was
\* banned and the ledger of u cleared, and no handler has run since.
JustBanned(u) ==
    /\ last_cmd.kind = "text" /\ last_cmd.user = u /\ last_cmd.reply = "unsafe"
    /\ last_cmd.wc = WARNING_LIMIT
    /\ u \notin DOMAIN user_warnings
    /\ u \notin DOMAIN user_violations

\* C16: the first score query for a user after the ban on the 3rd offence and
\* the clearing of the ledger yields 50, whatever the tenure of the user.
C16_FreshScoreAfterBan ==
    [][\A u \in Users :
           /\ (JustBanned(u) /\ ViewStep(u)) => actions'[1].n = 50 * SCORE_SCALE
           /\ (JustBanned(u) /\ TextQueryStep(u)) =>
                  user_trust_scores'[u] = 50 * SCORE_SCALE]_vars

\* An admin has force-set the score of u with /trust and no handler has run
\* since, so the ledger of u has not changed.
JustSet(u) == last_cmd.kind = "trust" /\ last_cmd.reply = "set" /\ last_cmd.user = u

\* C17: a score query for a user whose score an admin has force-set, made
\* before any violation or warning mutation of the user's ledger, yields the
\* set value.
C17_SetValueIsUsed ==
    [][\A u \in Users :
           /\ (JustSet(u) /\ ViewStep(u)) => actions'[1].n = user_trust_scores[u]
           /\ (JustSet(u) /\ TextQueryStep(u)) =>
                  user_trust_scores'[u] = user_trust_scores[u]]_vars

\* C18: every user with a trust record has a join_time, and a join_time once
\* set keeps its value.
C18_JoinTimeSetOnce ==
    [][\A u \in DOMAIN user_trust_scores' :
           /\ u \in DOMAIN user_join_dates'
           /\ u \in DOMAIN user_join_dates => user_join_dates'[u] = user_join_dates[u]]_vars

(***************************************************************************)
(* Claims about the dry run (checked under SpecPreview).                   *)
(***************************************************************************)
SetOf(seq) == {seq[i] : i \in 1..Len(seq)}

\* The one-shot sweep of /<minutes> is complete and was taken against the
\* tracked set and the cutoff of the last preview report: the same chat and
\* window at the same clock value, and the sweep's snapshot (what is tracked
\* now together with what the sweep removed) is the preview's.
SweptAsPreviewed ==
    /\ last_cmd.kind = "timer" /\ last_cmd.reply = "complete"
    /\ oneshot.pc = "idle" /\ oneshot.chat = last_cmd.chat
    /\ last_preview.chat = oneshot.chat
    /\ last_preview.minutes = oneshot.minutes
    /\ last_preview.cutoff = now - oneshot.minutes
    /\ last_preview.snapshot = DOMAIN message_history \cup SetOf(oneshot.targets)

\* The sweep's delete failures that were "not found": the targets gone from
\* the tracked set (lines 1160-1161, 1171-1174) that were not deleted.
NotFoundFailures ==
    Cardinality({m \in SetOf(oneshot.targets) : m \notin DOMAIN message_history})
        - oneshot.deleted

\* C19 as stated: for the same tracked snapshot and cutoff, the preview's
\* will-delete count equals the sweep's deleted_count plus the number of its
\* delete failures that are "not found".
C19_PreviewCountsGone ==
    SweptAsPreviewed => last_preview.will_delete = oneshot.deleted + NotFoundFailures

\* C19 amended: for the same tracked snapshot and cutoff, the preview's
\* will-delete count equals the sweep's deleted_count plus its error_count,
\* every delete failure counted, and the "not found" failures are among them.
C19_PreviewCountsTargets ==
    SweptAsPreviewed =>
        /\ last_preview.will_delete = oneshot.deleted + oneshot.errors
        /\ NotFoundFailures <= oneshot.errors

\* C19 witness: a sweep of two previewed messages is complete, one delete
\* failed as "not found" and one as protected or otherwise.
C19_Witness ==
    /\ SweptAsPreviewed
    /\ last_preview.will_delete = 2
    /\ oneshot.deleted = 0
    /\ NotFoundFailures = 1
    /\ oneshot.errors = 2

\* An admin's /preview<minutes> inside the range was handled in this step.
PreviewStep ==
    /\ last_cmd'.kind = "preview"
    /\ last_cmd'.reply \in {"previewed", "failed"}
    /\ now' = now

\* C20: a preview leaves the tracked-message set as it was and issues no
\* delete request.
C20_PreviewReadOnly ==
    [][PreviewStep =>
           /\ message_history' = message_history
           /\ delete_requests' = delete_requests]_vars

(***************************************************************************)
(* Claims about the periodic cleanup (checked under SpecCleanup).          *)
(***************************************************************************)
\* A round of the periodic cleanup task has run in this step.
CleanupStep == last_cmd'.kind = "cleanup" /\ now' = now

\* C21: after a round of the periodic cleanup no tracked message older than
\* 48 hours remains, every tracked message not older than 48 hours is still
\* tracked with its date, and the round has issued no delete request.
C21_CleanupEvictsOnlyExpired ==
    [][CleanupStep =>
           /\ \A m \in DOMAIN message_history' :
                  now - message_history'[m] <= RETENTION_CEILING
           /\ \A m \in DOMAIN message_history :
                  now - message_history[m] <= RETENTION_CEILING =>
                      /\ m \in DOMAIN message_history'
                      /\ message_history'[m] = message_history[m]
           /\ delete_requests' = delete_requests]_vars

\* C21 witness: a round has evicted a message older than 48 hours and kept
\* one that is exactly 48 hours old.
C21_Witness ==
    /\ last_cmd.kind = "cleanup"
    /\ \E m \in DOMAIN msg_chat : m \notin DOMAIN message_history
    /\ \E m \in DOMAIN message_history : now - message_history[m] = RETENTION_CEILING

(***************************************************************************)
(* Claims about the window bounds (checked under SpecRange).               *)
(***************************************************************************)
\* C22: an admin's /<minutes>, /confirm<minutes> or /preview<minutes> with a
\* window outside [5, 1440], and an admin's /auto<minutes> with a window
\* outside [10, 1440], is answered with the range message, issues no delete
\* request and changes neither the tracked set nor the task map.
C22_OutOfRangeRejected ==
    [][\A kind \in {"timer", "confirm", "preview", "auto"} :
           (/\ DirectiveStep(kind)
            /\ \/ last_cmd'.minutes > 1440
               \/ last_cmd'.minutes < (IF kind = "auto" THEN 10 ELSE 5)) =>
               /\ last_cmd'.reply = "out_of_range"
               /\ delete_requests' = delete_requests
               /\ message_history' = message_history
               /\ auto_deletion_tasks' = auto_deletion_tasks
               /\ tasks' = tasks
               /\ oneshot' = oneshot]_vars

\* C22 witness: /auto9 was rejected while a message is tracked and a task of
\* another window is active.
C22_Witness ==
    /\ last_cmd.kind = "auto" /\ last_cmd.minutes = 9
    /\ last_cmd.reply = "out_of_range"
    /\ DOMAIN message_history # {}
    /\ DOMAIN auto_deletion_tasks # {}

(***************************************************************************)
(* Claims about edited messages (checked under SpecEdit).                  *)
(***************************************************************************)
\* The edit of a message by a non-admin was handled in this step.
EditedStep ==
    /\ last_cmd' # last_cmd
    /\ last_cmd'.kind = "edited"
    /\ last_cmd'.reply # "admin"

\* C23: handling the edited message of a non-admin issues a delete request
\* for that message and leaves every warning count, violation history and
\* trust record as it was.
C23_EditDeletedLedgerKept ==
    [][EditedStep =>
           /\ \E i \in 1..Len(actions') :
                  actions'[i].op = "delete" /\ actions'[i].target = last_cmd'.msg
           /\ user_warnings' = user_warnings
           /\ user_violations' = user_violations
           /\ user_trust_scores' = user_trust_scores
           /\ user_join_dates' = user_join_dates]_vars

\* C23 witness: the edit of a user with two warnings was deleted and the user
\* still has two warnings and two violations.
C23_Witness ==
    /\ last_cmd.kind = "edited" /\ last_cmd.reply = "deleted"
    /\ last_cmd.user \in DOMAIN user_warnings
    /\ user_warnings[last_cmd.user] = 2
    /\ Len(user_violations[last_cmd.user]) = 2

(***************************************************************************)
(* Claims about admin-authored content (checked under Spec).               *)
(***************************************************************************)
\* A text, image or document event was handled in this step.
ContentStep == next_msg_id' # next_msg_id /\ last_cmd'.kind \in {"text", "image", "document"}

\* C24: a content event authored by an admin, of the configured list or of
\* the channel, is not classified and changes no warning count, violation
\* history or trust record.
C24_AdminContentUntouched ==
    [][(ContentStep /\ last_cmd'.user \in ConfigAdmins \cup ChannelAdmins) =>
           /\ last_cmd'.reply = "admin"
           /\ user_warnings' = user_warnings
           /\ user_violations' = user_violations
           /\ user_trust_scores' = user_trust_scores
           /\ user_join_dates' = user_join_dates]_vars

(***************************************************************************)
(* Claims about stopping recurring tasks (checked under SpecStop).         *)
(***************************************************************************)
\* The task ids stored for chat c in the task map.
TasksOf(adt, c) ==
    IF c \in DOMAIN adt THEN {adt[c][m] : m \in DOMAIN adt[c]} ELSE {}

\* A /stop_auto of an admin was handled in this step with the given answer.
StopStep(reply) ==
    /\ last_cmd' # last_cmd
    /\ last_cmd'.kind = "stop_auto"
    /\ last_cmd'.reply = reply

\* C25: /stop_auto <minutes> cancels the task of that window in that chat
\* and leaves every other task as it was, active and with its next sweep
\* due as before; /stop_auto without a window cancels every task of the chat
\* and leaves the tasks of every other chat as they were.
C25_StopIsSelective ==
    [][LET c == last_cmd'.chat
           stopped == IF c \in DOMAIN auto_deletion_tasks
                         /\ last_cmd'.minutes \in DOMAIN auto_deletion_tasks[c]
                      THEN auto_deletion_tasks[c][last_cmd'.minutes] ELSE 0
       IN  /\ StopStep("stopped") =>
                  /\ tasks'[stopped].pc = "done"
                  /\ \A t \in DOMAIN tasks \ {stopped} : tasks'[t] = tasks[t]
                  /\ \A c2 \in Chats :
                         TasksOf(auto_deletion_tasks', c2)
                             = TasksOf(auto_deletion_tasks, c2) \ {stopped}
           /\ StopStep("stopped_all") =>
                  /\ \A t \in TasksOf(auto_deletion_tasks, c) : tasks'[t].pc = "done"
                  /\ TasksOf(auto_deletion_tasks', c) = {}
                  /\ \A t \in DOMAIN tasks \ TasksOf(auto_deletion_tasks, c) :
                         tasks'[t] = tasks[t]
                  /\ \A c2 \in Chats \ {c} :
                         TasksOf(auto_deletion_tasks', c2) = TasksOf(auto_deletion_tasks, c2)]_vars

\* C25 witness: two tasks of different windows were active on one chat, one
\* was stopped by its window and the other has swept after that.
C25_Witness ==
    \E t1 \in DOMAIN tasks, t2 \in DOMAIN tasks :
        /\ tasks[t1].chat = tasks[t2].chat
        /\ tasks[t1].minutes # tasks[t2].minutes
        /\ tasks[t1].pc = "done" /\ tasks[t1].stopped_at >= 0
        /\ AlreadyActive(tasks[t2].chat, tasks[t2].minutes)
        /\ tasks[t2].last_sweep_at > tasks[t1].stopped_at

(***************************************************************************)
(* Claims about the cadence of a recurring task (checked under SpecLive).  *)
(***************************************************************************)
\* Task t was started and has not ended.
Live(t) == t \in DOMAIN tasks /\ tasks[t].pc # "done"

\* A stop directive has cancelled task t.
Cancelled(t) == t \in DOMAIN tasks /\ tasks[t].stopped_at >= 0

\* C26: a task that is not cancelled sweeps at every cadence: whenever the
\* sleep of a running task is over, the task is cancelled or completes a
\* sweep at that clock value and sleeps again, whatever the deletes of its
\* earlier sweeps returned.
C26_SweepsAtEveryCadence ==
    \A t \in 1..MaxTasks :
        (Live(t) /\ tasks[t].pc = "sleeping" /\ tasks[t].wake <= now) ~>
            \/ Cancelled(t)
            \/ /\ Live(t)
               /\ tasks[t].pc = "sleeping"
               /\ tasks[t].last_sweep_at = now

\* C26 witness: the only task ever started sweeps again and is about to
\* request the delete of a message whose delete failed in an earlier sweep.
C26_Witness ==
    /\ DOMAIN tasks = {1}
    /\ tasks[1].pc = "sweeping"
    /\ LET m == tasks[1].targets[tasks[1].idx + 1]
       IN  /\ <<tasks[1].chat, m>> \in delete_requests
           /\ m \in DOMAIN message_history

(***************************************************************************)
(* Claims about the tiers of the classifier (checked under SpecClassify).  *)
(***************************************************************************)
\* C27: the strict tier applies everything the normal tier applies: when a
\* text found unsafe at the normal tier is classified at the strict tier, the
\* strict verdict is unsafe too.
C27_StrictCoversNormal ==
    [][(/\ WasClassified /\ last_cmd.tier = "normal" /\ last_cmd.reply = "unsafe"
        /\ last_cmd'.tier = "strict" /\ last_cmd'.text = last_cmd.text)
       => last_cmd'.reply = "unsafe"]_vars

\* C27 witness: a text with an educational keyword, which the normal tier
\* finds unsafe for commercial spam alone, was found unsafe at the strict
\* tier under another rule.
C27_Witness ==
    /\ WasClassified /\ last_cmd.tier = "strict"
    /\ analyze_message(last_cmd.text).violations = <<Hit("commercial_spam", "high")>>
    /\ TextFeatures(last_cmd.text).edu
    /\ ~check_spam_patterns(last_cmd.text)
    /\ last_cmd.reply = "unsafe"
    /\ HitTypes = {"spam_pattern"}

\* An image was analysed in the last step.
ImageWasClassified == last_cmd.kind = "classify_image"

\* C28 as stated: an image whose caption is empty or missing is unsafe only
\* when the strict-narrow matcher finds a template match.
C28_BlankCaptionOnlyNarrow ==
    (ImageWasClassified /\ last_cmd.text = "") =>
        (last_cmd.reply = "unsafe" => ImageFeatures(last_cmd.image).narrow)

\* C28, amended: an image that decodes and whose caption is empty or missing
\* is unsafe only when the strict-narrow matcher finds a template match; a
\* match of the lenient-wide matcher alone leaves it safe.
C28_DecodedBlankCaptionOnlyNarrow ==
    (/\ ImageWasClassified /\ last_cmd.text = ""
     /\ ImageFeatures(last_cmd.image).decodes) =>
        (last_cmd.reply = "unsafe" => ImageFeatures(last_cmd.image).narrow)

\* C28 witness: an image without caption on which only the lenient-wide
\* matcher finds a template was found safe.
C28_Witness ==
    /\ ImageWasClassified /\ last_cmd.text = ""
    /\ ImageFeatures(last_cmd.image).wide
    /\ ~ImageFeatures(last_cmd.image).narrow
    /\ last_cmd.reply = "safe"

(***************************************************************************)
(* Claims about the ledger under transport failures (checked under Spec).  *)
(***************************************************************************)
\* C29: in every state between two events each user's warning_count is 0, 1
\* or 2: the limit is reached only inside the ban step, which resets the
\* ledger before the event ends, also when transport calls fail.
C29_CountBelowLimit ==
    \A u \in AllUsers : WarningCount(user_warnings, u) < WARNING_LIMIT

\* A report to an admin, the ban call or a group notice failed in acts.
FailedAfterRecord(acts) ==
    \E i \in 1..Len(acts) :
        /\ acts[i].op \in {"report", "ban", "notice_warn", "notice_banned"}
        /\ ~acts[i].ok

\* The ledger of u after the step holds the incremented count and, as its
\* last entry, the Violation of the event of the step.
RecordKept(u) ==
    LET h == History(user_violations', u)
    IN  /\ WarningCount(user_warnings', u) = WarningCount(user_warnings, u) + 1
        /\ WarningCount(user_warnings', u) = last_cmd'.wc
        /\ Len(h) > 0
        /\ h[Len(h)].warning_number = last_cmd'.wc
        /\ h[Len(h)].type = last_cmd'.kind

\* The ban call and the final notice both succeeded in acts.
BanCompleted(acts) ==
    /\ \E i \in 1..Len(acts) : acts[i].op = "ban" /\ acts[i].ok
    /\ \E i \in 1..Len(acts) : acts[i].op = "notice_banned" /\ acts[i].ok

\* C30 as stated: once an unsafe verdict has incremented warning_count and
\* appended the Violation, a failed admin report, ban call or group notice of
\* the same event leaves that increment and that Violation in the ledger, and
\* the handler ends normally.
C30_FailureKeepsRecord ==
    [][(UnsafeEventStep /\ last_cmd'.wc > 0 /\ FailedAfterRecord(actions')) =>
           /\ RecordKept(last_cmd'.user)
           /\ DispatcherFree']_vars

\* C30, amended: such a failure leaves the increment and the Violation in the
\* ledger unless the ban and its notice both succeed in the same event (only
\* an admin report failed); then the user's ledger is reset as in an event
\* without failures.  The handler ends normally in both cases.
C30_FailureKeepsRecordUnlessBanned ==
    [][(UnsafeEventStep /\ last_cmd'.wc > 0 /\ FailedAfterRecord(actions')) =>
           /\ IF BanCompleted(actions')
              THEN /\ last_cmd'.wc >= WARNING_LIMIT
                   /\ last_cmd'.user \notin DOMAIN user_warnings'
                   /\ last_cmd'.user \notin DOMAIN user_violations'
              ELSE RecordKept(last_cmd'.user)
           /\ DispatcherFree']_vars

\* C30 witness: the ban call of a third unsafe event failed and the ledger
\* holds the third warning and the third Violation.
C30_Witness ==
    /\ last_cmd.reply = "unsafe" /\ last_cmd.wc = WARNING_LIMIT
    /\ \E i \in 1..Len(actions) : actions[i].op = "ban" /\ ~actions[i].ok
    /\ WarningCount(user_warnings, last_cmd.user) = WARNING_LIMIT
    /\ Len(History(user_violations, last_cmd.user)) = WARNING_LIMIT

(***************************************************************************)
(* Claims about the order of the transport calls of one verdict (Spec).    *)
(***************************************************************************)
\* The calls that act on an unsafe verdict other than the delete.
VerdictOps == {"report", "ban", "notice_warn", "notice_banned"}

\* C31: for every unsafe verdict the delete request for the offending message
\* is issued before any warn notice, ban action or admin report of that
\* verdict.
C31_DeleteComesFirst ==
    last_cmd.reply = "unsafe" =>
        \A i \in 1..Len(actions) :
            actions[i].op \in VerdictOps =>
                \E j \in 1..(i - 1) :
                    actions[j].op = "delete" /\ actions[j].target = last_cmd.msg

\* C31 witness: a verdict that reached the limit issued the delete, then the
\* admin report, then the ban and its notice.
C31_Witness ==
    /\ last_cmd.reply = "unsafe"
    /\ Len(actions) = 4
    /\ actions[1].op = "delete" /\ actions[1].target = last_cmd.msg
    /\ actions[2].op = "report"
    /\ actions[3].op = "ban"
    /\ actions[4].op = "notice_banned"

(***************************************************************************)
(* Claims about tracking during a sweep (checked under SpecTrack).         *)
(***************************************************************************)
\* Task t requests one delete in this step.
TaskDeleteStep(t) ==
    /\ t \in DOMAIN tasks /\ tasks[t].pc = "sweeping"
    /\ tasks'[t].idx = tasks[t].idx + 1 \/ tasks'[t].pc = "sleeping"

\* The tracked messages that entered the tracked set after the sweep of
\* task t selected its targets: a target is older than the sweep's cutoff,
\* which lies before the clock value of the selection.
TrackedSince(t) == {m \in DOMAIN message_history : message_history[m] >= tasks[t].last_sweep_at}

\* C32: a message tracked while a sweep is in progress, after the sweep has
\* selected its targets, is neither deleted nor removed from the tracked set
\* by that sweep, and the sweep goes on to its end.
C32_LateMessageSkipped ==
    [][\A t \in 1..MaxTasks :
           TaskDeleteStep(t) =>
               /\ \A m \in TrackedSince(t) :
                      /\ m \in DOMAIN message_history'
                      /\ message_history'[m] = message_history[m]
                      /\ <<msg_chat[m], m>> \notin delete_requests' \ delete_requests
               /\ tasks'[t].pc \in {"sweeping", "sleeping"}]_vars

\* C33: an image that cannot be decoded at any stage of the analysis yields a
\* verdict that is unsafe and carries an explicit error reason; no decoding
\* or conversion failure yields a safe verdict.
C33_UndecodableIsUnsafe ==
    (/\ ImageWasClassified
     /\ ~ImageFeatures(last_cmd.image).decodes \/ ~ImageFeatures(last_cmd.image).converts)
        => (last_cmd.reply = "unsafe" /\ last_cmd.reason = "error")

(***************************************************************************)
(* Claims about the reach of the trust formula (checked under SpecTrust).  *)
(***************************************************************************)
\* The largest value the formula can give: the base score plus the whole
\* tenure bonus, in stored units.
FormulaCeiling == (BASE_SCORE + MAX_TIME_BONUS) * SCORE_SCALE

C35_CountIsHistoryLength ==
    \A u \in AllUsers :
        WarningCount(user_warnings, u) = Len(History(user_violations, u))

(***************************************************************************)
(* Claims about interleaved sweeps (checked under SpecRace).               *)
(***************************************************************************)
\* The counters of a sweep record add up to the deletes it has requested.
CountersAddUp(sw) ==
    /\ sw.pc = "sweeping" => sw.deleted + sw.errors = sw.idx
    /\ (sw.pc = "idle" /\ sw.targets # <<>>) => sw.deleted + sw.errors = Len(sw.targets)

\* The sweep with record sw before and sw2 after the step has requested the
\* delete of a message another sweep already removed: it counts an error,
\* not a delete, and goes on.
PassedOverRemoved(sw, sw2) ==
    (sw.pc = "sweeping" /\ sw2 # sw /\ AlreadyRemoved(sw.chat, sw.targets[sw.idx + 1])) =>
        /\ sw2.pc \in {"sweeping", "sleeping", "idle"}
        /\ sw2.pc = sw.pc => (sw2.deleted = sw.deleted /\ sw2.errors = sw.errors + 1)
        /\ sw2.pc = "idle" => (sw2.deleted = sw.deleted /\ sw2.errors = sw.errors + 1)

C37_DeniedChangesNothing ==
    [][DeniedDirective =>
           /\ delete_requests' = delete_requests
           /\ oneshot' = oneshot
           /\ message_history' = message_history
           /\ auto_deletion_tasks' = auto_deletion_tasks /\ tasks' = tasks
           /\ user_trust_scores' = user_trust_scores /\ user_join_dates' = user_join_dates
           /\ user_warnings' = user_warnings /\ user_violations' = user_violations
           /\ confirmed' = confirmed]_vars

\* C37 witness: a non-admin's /reset_warnings was ignored while the user has
\* a warning and a trust record, a message is tracked and a recurring task
\* is active.
C37_Witness ==
    /\ last_cmd.kind = "reset_warnings" /\ last_cmd.reply = "ignored"
    /\ WarningCount(user_warnings, last_cmd.user) >= 1
    /\ last_cmd.user \in DOMAIN user_trust_scores
    /\ DOMAIN message_history # {}
    /\ AlreadyActive(100, LiveWindow)

(***************************************************************************)
(* Claims about the verdicts after /reset_warnings (checked under Spec).   *)
(***************************************************************************)
\* The warnings of u were reset after one or two of them and no unsafe
\* verdict of u has been recorded since: the count is gone, the history of
\* before the reset is still stored.
ResetPending(u) ==
    /\ u \notin DOMAIN user_warnings
    /\ u \in DOMAIN user_violations
    /\ Len(user_violations[u]) \in {1, 2}

BanNoticeHolds(acts, n) ==
    \A i \in 1..Len(acts) : acts[i].op = "notice_banned" => Len(acts[i].detail) = n

\* C38: after reset_warnings for a user who had one or two warnings, the
\* next unsafe verdict of the user produces WARNING 1/3 and starts the
\* history anew, and the ban report of the third one renders exactly the
\* three violations recorded since the reset.
C38_FreshStrikesAfterReset ==
    [][\A u \in Users :
           (UnsafeEventStep /\ last_cmd'.user = u) =>
               /\ ResetPending(u) =>
                      /\ WarnNoticeIn(actions', last_cmd'.chat, 1, WARNING_LIMIT - 1)
                      /\ Len(History(user_violations', u)) = 1
               /\ BanNoticeHolds(actions', WARNING_LIMIT)]_vars

\* Task t leaves its sleep and begins a sweep in this step.
BeginsSweep(t) ==
    /\ tasks[t].pc = "sleeping"
    /\ tasks'[t].pc # "done"
    /\ tasks'[t].last_sweep_at # tasks[t].last_sweep_at

\* Task t asks the transport to delete the next message of its snapshot.
RequestsDelete(t) ==
    /\ tasks[t].pc = "sweeping"
    /\ tasks'[t].stopped_at = tasks[t].stopped_at
    /\ tasks'[t] # tasks[t]

\* C39: after /stop_auto and a new /auto for the same (chat, minutes) pair, one
\* task at most sweeps for the pair: every step that begins a sweep or requests
\* a delete is taken by the task the map holds for the pair, that task has not
\* been stopped, and every other task of the pair has ended.
C39_OnlyRestartedTaskSweeps ==
    [][\A t \in DOMAIN tasks :
          (BeginsSweep(t) \/ RequestsDelete(t)) =>
              /\ tasks[t].stopped_at < 0
              /\ AlreadyActive(tasks[t].chat, tasks[t].minutes)
              /\ auto_deletion_tasks[tasks[t].chat][tasks[t].minutes] = t
              /\ \A other \in DOMAIN tasks \ {t} :
                     (tasks[other].chat = tasks[t].chat
                          /\ tasks[other].minutes = tasks[t].minutes) =>
                         tasks[other].pc = "done"]_vars

\* C39 witness: a pair was stopped and started again at the same clock value,
\* and the task of the restart is in the middle of a sweep, one delete done.
C39_Witness ==
    \E t \in DOMAIN tasks :
        /\ tasks[t].pc = "sweeping" /\ tasks[t].idx >= 1
        /\ \E old \in DOMAIN tasks :
               /\ old # t
               /\ tasks[old].chat = tasks[t].chat /\ tasks[old].minutes = tasks[t].minutes
               /\ tasks[old].stopped_at >= 0
               /\ tasks[t].last_sweep_at = tasks[old].stopped_at + CADENCE

====
